---- MODULE Spec2Model ----
(***************************************************************************)
(* A model of the SAR ("solid archive") reader and writer of               *)
(* riannucci/sarchive: the magic envelope, the block layer, the trailing   *)
(* checksum layer, the TOC schema and the streaming unpack pipeline.       *)
(*                                                                         *)
(* Bytes are the naturals 0..255, a byte stream is a sequence of bytes, a  *)
(* name is a sequence of bytes, a path a sequence of names.  An error      *)
(* value is a record [kind, diff]; kind "nil" is Go's nil error.           *)
(***************************************************************************)
EXTENDS Integers, Sequences, FiniteSets, TLC

(***************************************************************************)
(* Bounds of the model.                                                    *)
(***************************************************************************)
\* largest File.size of a file of a generated TOC
MaxFileSize == 2
\* number of filesystem calls that may fail during one run
MaxFaults == 1
\* number of Close / UnpackTo calls made on one opened archive
MaxCalls == 2
\* longest payload handed to a stand-alone ChecksumReader
MaxPayload == 3

\* the deepest nesting of the entries handed to TOC.Validate
MaxDepth == 3

(***************************************************************************)
(* Generic helpers.                                                        *)
(***************************************************************************)
Min(a, b) == IF a < b THEN a ELSE b

Take(s, n) == SubSeq(s, 1, Min(n, Len(s)))

Drop(s, n) == SubSeq(s, n + 1, Len(s))

Last(s) == s[Len(s)]

RECURSIVE Concat(_)
Concat(ss) == IF ss = <<>> THEN <<>> ELSE Head(ss) \o Concat(Tail(ss))

RECURSIVE SumSeq(_)
SumSeq(s) == IF s = <<>> THEN 0 ELSE Head(s) + SumSeq(Tail(s))

Err(k) == [kind |-> k, diff |-> 0]

Nil == Err("nil")

IsNil(e) == e.kind = "nil"

(***************************************************************************)
(* sardata/magic.go                                                        *)
(***************************************************************************)
\* "SAR"
Magic == <<83, 65, 82>>

Version == 1

magicVer == Magic \o <<Version>>

\* WriteMagic: the bytes it writes.
WriteMagic == magicVer

\* A ReadMagic without the version gate.
ReadMagicAnyVersion(view) ==
  IF Len(view) = 0 THEN [err |-> Err("EOF"), version |-> 0, n |-> 0]
  ELSE IF Len(view) < 4
    THEN [err |-> Err("UnexpectedEOF"), version |-> 0, n |-> Len(view)]
  ELSE IF Take(view, 3) # Magic
    THEN [err |-> Err("BadMagic"), version |-> 0, n |-> 4]
  ELSE [err |-> Nil, version |-> view[4], n |-> 4]

\* ReadMagic on the bytes `view` readable from the reader: io.ReadFull of 4
\* bytes, then the tag and the version gate.  n is the number of bytes consumed.
ReadMagic(view) ==
  IF Len(view) = 0 THEN [err |-> Err("EOF"), version |-> 0, n |-> 0]
  ELSE IF Len(view) < 4
    THEN [err |-> Err("UnexpectedEOF"), version |-> 0, n |-> Len(view)]
  ELSE IF Take(view, 3) # Magic
    THEN [err |-> Err("BadMagic"), version |-> 0, n |-> 4]
  ELSE IF view[4] > Version
    THEN [err |-> Err("BadVersion"), version |-> view[4], n |-> 4]
  ELSE [err |-> Nil, version |-> view[4], n |-> 4]

(***************************************************************************)
(* encoding/binary varints, as BlockHeader and the TOC encoding use them.  *)
(***************************************************************************)
RECURSIVE PutUvarint(_)
PutUvarint(x) ==
  IF x < 128 THEN <<x>> ELSE <<(x % 128) + 128>> \o PutUvarint(x \div 128)

RECURSIVE Pow2(_)
Pow2(n) == IF n = 0 THEN 1 ELSE 2 * Pow2(n - 1)

\* binary.ReadUvarint over a byte-at-a-time reader of s, starting after the
\* first `at` bytes; i counts the bytes taken so far.  A uint64 is kept as its
\* low 28 bits x and w, its bits above them: w[1] is bits 28..55 and w[2]
\* bits 56..63.  hi tells the size of it: 0 when no bit above the 28th is
\* set, 2 when bit 63 is set (the value exceeds math.MaxInt64), 1 otherwise.
RECURSIVE ReadUvarintFrom(_, _, _, _, _, _)
ReadUvarintFrom(s, at, i, x, hi, w) ==
  IF at + i >= Len(s)
    THEN [err |-> Err(IF i = 0 THEN "EOF" ELSE "UnexpectedEOF"), val |-> x, hi |-> hi,
          wide |-> w, n |-> i]
  ELSE LET b == s[at + i + 1]
           bits == b % 128
           x2 == IF i < 4 THEN x + bits * Pow2(7 * i) ELSE x
           hi2 == IF i < 4 \/ bits = 0 THEN hi ELSE IF i = 9 THEN 2 ELSE IF hi = 2 THEN 2 ELSE 1
           w2 == IF i < 4 \/ i > 9 THEN w
                 ELSE IF i < 8 THEN <<w[1] + bits * Pow2(7 * (i - 4)), w[2]>>
                 ELSE IF i = 8 THEN <<w[1], w[2] + bits>>
                 ELSE <<w[1], w[2] + 128 * (bits % 2)>>
       IN
    IF b < 128
      THEN IF i > 9 \/ (i = 9 /\ b > 1)
             THEN [err |-> Err("Overflow"), val |-> x, hi |-> hi, wide |-> w, n |-> i + 1]
             ELSE [err |-> Nil, val |-> x2, hi |-> hi2, wide |-> w2, n |-> i + 1]
      ELSE ReadUvarintFrom(s, at, i + 1, x2, hi2, w2)

ReadUvarint(s, at) == ReadUvarintFrom(s, at, 0, 0, 0, <<0, 0>>)

\* A length no stream of the model reaches: what a uint64 with a bit above
\* the 28th counts as when it limits a reader.
Huge == Pow2(28)

(***************************************************************************)
(* uint64 arithmetic.  A uint64 is three limbs <<lo, mid, top>>: its bits  *)
(* 0..27, 28..55 and 56..63.                                               *)
(***************************************************************************)
U64(n) == <<n, 0, 0>>

\* a + b on uint64: the carry out of bit 63 is dropped
Add64(a, b) ==
  LET lo == a[1] + b[1]
      mid == a[2] + b[2] + (lo \div Huge)
      top == a[3] + b[3] + (mid \div Huge)
  IN <<lo % Huge, mid % Huge, top % 256>>

\* int64(x) as the limit of an io.LimitReader: the value itself below 2^28,
\* Huge from there up to math.MaxInt64, and -1 for every x with bit 63 set
\* (to a LimitReader all limits <= 0 are alike: it is at its end).
Int64(x) ==
  IF x[3] >= 128 THEN -1 ELSE IF x[2] # 0 \/ x[3] # 0 THEN Huge ELSE x[1]

\* binary.PutUvarint of a uint64: its ten groups of 7 bits, low group first,
\* up to the highest group that is not zero.
PutUvarint64(x) ==
  LET g == [k \in 0..9 |->
              IF k < 4 THEN (x[1] \div Pow2(7 * k)) % 128
              ELSE IF k < 8 THEN (x[2] \div Pow2(7 * (k - 4))) % 128
              ELSE IF k = 8 THEN x[3] % 128
              ELSE x[3] \div 128]
      used == {k \in 0..9 : g[k] # 0} \cup {0}
      n == CHOOSE k \in used : \A m \in used : m <= k
  IN [k \in 1..(n + 1) |-> IF k <= n THEN g[k - 1] + 128 ELSE g[k - 1]]

(***************************************************************************)
(* sardata/compression.go.  Flate streams are modelled by their stored     *)
(* blocks (RFC 1951, BTYPE=00): a header byte holding BFINAL, LEN and its  *)
(* one's complement NLEN, then LEN raw bytes.  A Huffman block is reported *)
(* as corrupt input.                                                       *)
(***************************************************************************)
CompressionNone == 1

CompressionFlate == 2

\* A Valid that takes every byte for a scheme.
CompressionValidAny(c) == c \in 0..255

\* CompressionScheme.Valid() returns nil
CompressionValid(c) == c \in {CompressionNone, CompressionFlate}

\* CompressionScheme.Writer and CompressionScheme.Reader: the switch on the
\* scheme, and after it return nil, c.Valid().  made tells whether a writer
\* (reader) is returned.
SchemeWriter(c) ==
  CASE c = CompressionNone -> [made |-> TRUE, err |-> Nil]
    [] c = CompressionFlate -> [made |-> TRUE, err |-> Nil]
    [] OTHER -> [made |-> FALSE,
                 err |-> IF CompressionValid(c) THEN Nil ELSE Err("UnknownCompression")]

SchemeReader(c) ==
  CASE c = CompressionNone -> [made |-> TRUE, err |-> Nil]
    [] c = CompressionFlate -> [made |-> TRUE, err |-> Nil]
    [] OTHER -> [made |-> FALSE,
                 err |-> IF CompressionValid(c) THEN Nil ELSE Err("UnknownCompression")]

FlateEncode(s) ==
  <<1, Len(s) % 256, Len(s) \div 256, 255 - (Len(s) % 256), 255 - (Len(s) \div 256)>> \o s

\* What a flate reader yields over the compressed bytes s: the data it
\* produces, and the error that ends it ("EOF" for a well-formed stream).
RECURSIVE FlateDecode(_)
FlateDecode(s) ==
  IF Len(s) < 1 THEN [data |-> <<>>, err |-> Err("UnexpectedEOF")]
  ELSE IF s[1] \notin {0, 1} THEN [data |-> <<>>, err |-> Err("FlateCorrupt")]
  ELSE IF Len(s) < 5 THEN [data |-> <<>>, err |-> Err("UnexpectedEOF")]
  ELSE LET n == s[2] + 256 * s[3] IN
    IF s[4] # 255 - s[2] \/ s[5] # 255 - s[3]
      THEN [data |-> <<>>, err |-> Err("FlateCorrupt")]
    ELSE IF Len(s) < 5 + n
      THEN [data |-> Drop(s, 5), err |-> Err("UnexpectedEOF")]
    ELSE IF s[1] = 1
      THEN [data |-> SubSeq(s, 6, 5 + n), err |-> Err("EOF")]
    ELSE LET rest == FlateDecode(Drop(s, 5 + n)) IN
      [data |-> SubSeq(s, 6, 5 + n) \o rest.data, err |-> rest.err]

\* CompressionScheme.Writer followed by Close: the bytes the encoder emits.
Compress(c, s) ==
  IF c = CompressionNone THEN s ELSE FlateEncode(s)

\* CompressionScheme.Reader read to its end over the bytes s.
Decompress(c, s) ==
  IF c = CompressionNone THEN [data |-> s, err |-> Err("EOF")] ELSE FlateDecode(s)

(***************************************************************************)
(* sardata/block.go                                                        *)
(***************************************************************************)
BlockHeaderWrite(length, c) == PutUvarint(length) \o <<c>>

\* BlockHeader.Read over the bytes s after the first `at`.
BlockHeaderRead(s, at) ==
  LET Scheme(v, c) ==
        [err |-> IF CompressionValid(c) THEN Nil ELSE Err("UnknownCompression"),
         length |-> v.val, hi |-> v.hi, c |-> c, n |-> v.n + 1]
      Length(v) ==
        IF ~IsNil(v.err) THEN [err |-> v.err, length |-> v.val, hi |-> v.hi, c |-> 0, n |-> v.n]
        ELSE IF at + v.n >= Len(s)
          THEN [err |-> Err("EOF"), length |-> v.val, hi |-> v.hi, c |-> 0, n |-> v.n]
        ELSE Scheme(v, s[at + v.n + 1])
  IN Length(ReadUvarint(s, at))

\* A BlockWriter that puts the length of the uncompressed data in the header.
BlockWriterRawLength(c, content) == BlockHeaderWrite(Len(content), c) \o Compress(c, content)

\* BlockWriter: what reaches the sink when the writer is closed after `content`
\* was written to it.
BlockWriter(c, content) ==
  LET z == Compress(c, content) IN BlockHeaderWrite(Len(z), c) \o z

\* A BlockReader whose view of the source has no limit.
BlockReaderUnlimited(s, at) ==
  LET Ungated(h) == [err |-> h.err, limit |-> Huge, c |-> h.c, n |-> h.n]
  IN Ungated(BlockHeaderRead(s, at))

\* BlockReader's header step: the header, the int64 gate, the length-limited
\* view.  limit is the LimitReader's N.
BlockReader(s, at) ==
  LET Gate(h) ==
        IF ~IsNil(h.err) THEN [err |-> h.err, limit |-> 0, c |-> h.c, n |-> h.n]
        ELSE IF h.hi = 2
          THEN [err |-> Err("BlockTooLarge"), limit |-> 0, c |-> h.c, n |-> h.n]
        ELSE [err |-> Nil, limit |-> IF h.hi = 0 THEN h.length ELSE Huge, c |-> h.c, n |-> h.n]
  IN Gate(BlockHeaderRead(s, at))

(***************************************************************************)
(* sardata/checksum.go.  The digest functions are library code; they are   *)
(* modelled by one rolling hash per scheme, h' = (31 h + b + 1) mod 32749, *)
(* started from the scheme's id, whose digest has the scheme's size and    *)
(* determines the hash state.                                              *)
(***************************************************************************)
ChecksumSHA2_256 == 1

ChecksumSHA2_512 == 2

ChecksumBLAKE2s == 3

ChecksumBLAKE2b == 4

ChecksumSHA3_256 == 5

ChecksumSHA3_512 == 6

ChecksumNULL == 255

ChecksumValid(c) ==
  c \in {ChecksumSHA2_256, ChecksumSHA2_512, ChecksumBLAKE2s, ChecksumBLAKE2b,
         ChecksumSHA3_256, ChecksumSHA3_512, ChecksumNULL}

\* ChecksumScheme.Hash().Size()
HashSize(c) ==
  IF c = ChecksumNULL THEN 0
  ELSE IF c \in {ChecksumSHA2_256, ChecksumBLAKE2s, ChecksumSHA3_256} THEN 32
  ELSE 64

\* ChecksumScheme.Hash(): the state of a fresh hash.
HashNew(c) == c

\* hash.Hash.Write, for a stand-in digest: h' = (31 * h + b + 1) mod HashMod
\* byte after byte, computed by halves (PolyHash(s) is the state the bytes s
\* lead to from state 0).
HashMod == 32749

RECURSIVE PowMod(_)
PowMod(n) ==
  IF n = 0 THEN 1
  ELSE LET q == PowMod(n \div 2) IN
       IF n % 2 = 0 THEN (q * q) % HashMod ELSE (((q * q) % HashMod) * 31) % HashMod

RECURSIVE PolyHash(_)
PolyHash(s) ==
  IF Len(s) = 0 THEN 0
  ELSE IF Len(s) = 1 THEN s[1] + 1
  ELSE LET k == Len(s) \div 2
           l == PolyHash(SubSeq(s, 1, k))
           r == PolyHash(SubSeq(s, k + 1, Len(s)))
       IN (l * PowMod(Len(s) - k) + r) % HashMod

HashWrite(c, h, bytes) ==
  IF c = ChecksumNULL THEN h
  ELSE (h * PowMod(Len(bytes)) + PolyHash(bytes)) % HashMod

\* hash.Hash.Sum(nil)
HashSum(c, h) ==
  [i \in 1..HashSize(c) |->
     IF i = 1 THEN h % 256 ELSE IF i = 2 THEN h \div 256 ELSE (h + 7 * i + c) % 256]

\* ChecksumScheme.Writer: the trailer its close hook appends after `written`
\* went through it.
ChecksumTrailer(c, written) ==
  IF c = ChecksumNULL THEN <<c, 0>>
  ELSE <<c>> \o HashSum(c, HashWrite(c, HashNew(c), written)) \o <<HashSize(c)>>

\* ChecksumScheme.Writer: what the sink holds once the writer is closed.
ChecksumWriter(c, written) == written \o ChecksumTrailer(c, written)

\* ParseTrailer on a seekable source holding `bytes`, positioned at `at`.
\* pos is where it leaves the source.
ParseTrailer(bytes, at) ==
  LET len == Len(bytes)
      none == [err |-> Err("SeekError"), c |-> 0, nominalEnd |-> 0,
               nominalChecksum |-> <<>>, pos |-> at]
  IN
  IF len - 1 < 0 THEN none
  ELSE LET nominalSize == bytes[len]
           nominalEnd == len - (nominalSize + 2)
       IN
    IF nominalEnd < 0 THEN [none EXCEPT !.pos = len]
    ELSE LET c == bytes[nominalEnd + 1]
             nominalChecksum == SubSeq(bytes, nominalEnd + 2, len - 1)
             got == [err |-> Nil, c |-> c, nominalEnd |-> nominalEnd,
                     nominalChecksum |-> nominalChecksum, pos |-> len - 1]
         IN
      IF ~ChecksumValid(c) THEN [got EXCEPT !.err = Err("UnknownChecksum")]
      ELSE IF nominalSize # HashSize(c)
        THEN [got EXCEPT !.err = Err("HashSizeMismatch")]
      ELSE [got EXCEPT !.pos = at]

\* The absent checksum layer (verification Early or Never).
NoChecksum ==
  [on |-> FALSE, c |-> 0, N |-> 0, h |-> 0, nominalEnd |-> 0, nominalChecksum |-> <<>>]

\* ChecksumReader: the reader it returns (a LimitReader of nominalEnd bytes
\* tee'd into the hash), the error, and where the source is left.
ChecksumReader(bytes, at) ==
  LET Layer(t) ==
        [rd |-> [on |-> TRUE, c |-> t.c, N |-> t.nominalEnd, h |-> HashNew(t.c),
                 nominalEnd |-> t.nominalEnd, nominalChecksum |-> t.nominalChecksum],
         err |-> IF t.c = ChecksumNULL THEN Nil ELSE t.err, pos |-> t.pos]
  IN Layer(ParseTrailer(bytes, at))

\* Read through the checksum layer (raw source when the layer is absent): as
\* many of the next n bytes as the limit and the source give.
CsAvail(cs, bytes, pos, n) ==
  LET left == IF pos < Len(bytes) THEN Len(bytes) - pos ELSE 0 IN
  IF cs.on THEN Min(n, Min(cs.N, left)) ELSE Min(n, left)

CsRead(cs, bytes, pos, n) ==
  LET m == CsAvail(cs, bytes, pos, n)
      got == SubSeq(bytes, pos + 1, pos + m)
  IN [cs |-> IF cs.on THEN [cs EXCEPT !.N = @ - m, !.h = HashWrite(cs.c, @, got)] ELSE cs,
      pos |-> pos + m, data |-> got]

\* A close hook that goes by the digest alone, whatever the position.
ChecksumCloseAnywhere(cs, pos) ==
  IF cs.c # ChecksumNULL /\ HashSum(cs.c, cs.h) # cs.nominalChecksum
    THEN [err |-> Err("MismatchedChecksum"), closes |-> FALSE]
    ELSE [err |-> Nil, closes |-> TRUE]

\* The close hook of the reader ChecksumReader returned, with the source at
\* `pos`: the error it returns, and whether it closed the source.
ChecksumClose(cs, pos) ==
  IF pos # cs.nominalEnd
    THEN [err |-> [kind |-> "JunkAfterPayload", diff |-> cs.nominalEnd - pos],
          closes |-> FALSE]
  ELSE IF cs.c # ChecksumNULL /\ HashSum(cs.c, cs.h) # cs.nominalChecksum
    THEN [err |-> Err("MismatchedChecksum"), closes |-> FALSE]
  ELSE [err |-> Nil, closes |-> TRUE]

(***************************************************************************)
(* sardata/toc: the schema (toc.proto).  An Entry is a record of its name, *)
(* its kind ("File", "Symlink", "Tree", or "None" when the oneof is unset) *)
(* and the fields of the three kinds.  An optional mode message is 0 when  *)
(* absent and 1 + its flags when present.  A Tree is the sequence of its   *)
(* entries.  size64 is File.size, a uint64; size is int64(File.size) as    *)
(* ensureFile hands it to its LimitReader.                                 *)
(***************************************************************************)
File(name, size) ==
  [name |-> name, kind |-> "File", size |-> size, size64 |-> U64(size), common |-> 0,
   posix |-> 0, win |-> 0, target |-> <<>>, entries |-> <<>>]

\* A File whose size is the uint64 x.
File64(name, x) == [File(name, 0) EXCEPT !.size = Int64(x), !.size64 = x]

FileMode(name, size, common, posix, win) ==
  [File(name, size) EXCEPT !.common = common, !.posix = posix, !.win = win]

SymLink(name, target) ==
  [name |-> name, kind |-> "Symlink", size |-> 0, size64 |-> U64(0), common |-> 0, posix |-> 0, win |-> 0,
   target |-> target, entries |-> <<>>]

Tree(name, entries) ==
  [name |-> name, kind |-> "Tree", size |-> 0, size64 |-> U64(0), common |-> 0, posix |-> 0, win |-> 0,
   target |-> <<>>, entries |-> entries]

NoKind(name) ==
  [name |-> name, kind |-> "None", size |-> 0, size64 |-> U64(0), common |-> 0, posix |-> 0, win |-> 0,
   target |-> <<>>, entries |-> <<>>]

TOC(caseSafe, root) == [caseSafe |-> caseSafe, hasRoot |-> TRUE, root |-> root]

(***************************************************************************)
(* The wire encoding of the schema (proto.Marshal): tag-prefixed fields in *)
(* field order, zero values omitted, embedded messages length-delimited.   *)
(***************************************************************************)
LenDelim(field, bytes) == <<field * 8 + 2>> \o PutUvarint(Len(bytes)) \o bytes

EncFlag(field, on) == IF on THEN <<field * 8, 1>> ELSE <<>>

EncMode(field, m) ==
  IF m = 0 THEN <<>>
  ELSE LenDelim(field, EncFlag(1, (m - 1) % 2 = 1) \o EncFlag(2, (m - 1) \div 2 = 1))

EncFile(e) ==
  (IF e.size64 # U64(0) THEN <<8>> \o PutUvarint64(e.size64) ELSE <<>>)
    \o EncMode(2, e.common) \o EncMode(3, e.posix) \o EncMode(4, e.win)

EncSymLink(e) == Concat([i \in 1..Len(e.target) |-> LenDelim(1, e.target[i])])

RECURSIVE EncTree(_)
RECURSIVE EncEntry(_)
EncEntry(e) ==
  (IF e.name # <<>> THEN LenDelim(1, e.name) ELSE <<>>)
    \o (CASE e.kind = "File" -> LenDelim(2, EncFile(e))
          [] e.kind = "Symlink" -> LenDelim(3, EncSymLink(e))
          [] e.kind = "Tree" -> LenDelim(4, EncTree(e.entries))
          [] OTHER -> <<>>)

EncTree(entries) == Concat([i \in 1..Len(entries) |-> LenDelim(1, EncEntry(entries[i]))])

\* proto.Marshal of a TOC
Marshal(t) ==
  EncFlag(1, t.caseSafe) \o (IF t.hasRoot THEN LenDelim(2, EncTree(t.root)) ELSE <<>>)

(***************************************************************************)
(* proto.Unmarshal.  WireFields splits a message into its fields, each     *)
(* [num, wire, val, hi, bytes]; a field of an unknown number is skipped by *)
(* the decoders, a known field of the wrong wire type is an error, and of  *)
(* a field that occurs twice the last occurrence wins.                     *)
(***************************************************************************)
RECURSIVE WireFieldsFrom(_, _, _)
WireFieldsFrom(s, at, acc) ==
  LET bad == [ok |-> FALSE, fields |-> acc]
      Field(num, wire, p, v) ==
        CASE wire = 0 ->
               IF ~IsNil(v.err) THEN bad
               ELSE WireFieldsFrom(s, p + v.n,
                      Append(acc, [num |-> num, wire |-> 0, val |-> v.val, hi |-> v.hi,
                                   wide |-> v.wide, bytes |-> <<>>]))
          [] wire = 2 ->
               IF ~IsNil(v.err) \/ v.hi # 0 \/ p + v.n + v.val > Len(s) THEN bad
               ELSE WireFieldsFrom(s, p + v.n + v.val,
                      Append(acc, [num |-> num, wire |-> 2, val |-> 0, hi |-> 0, wide |-> <<0, 0>>,
                                   bytes |-> SubSeq(s, p + v.n + 1, p + v.n + v.val)]))
          [] wire \in {1, 5} ->
               LET w == IF wire = 1 THEN 8 ELSE 4 IN
               IF p + w > Len(s) THEN bad
               ELSE WireFieldsFrom(s, p + w,
                      Append(acc, [num |-> num, wire |-> wire, val |-> 0, hi |-> 0, wide |-> <<0, 0>>,
                                   bytes |-> SubSeq(s, p + 1, p + w)]))
          [] OTHER -> bad
      Tag(t) ==
        IF ~IsNil(t.err) \/ t.hi # 0 \/ t.val \div 8 = 0 THEN bad
        ELSE Field(t.val \div 8, t.val % 8, at + t.n,
                   IF t.val % 8 \in {0, 2} THEN ReadUvarint(s, at + t.n) ELSE t)
  IN
  IF at >= Len(s) THEN [ok |-> TRUE, fields |-> acc] ELSE Tag(ReadUvarint(s, at))

WireFields(s) == WireFieldsFrom(s, 0, <<>>)

\* The fields of the given numbers all have the wire type the schema gives them.
WireTypesOk(fields, varints, delims) ==
  \A i \in 1..Len(fields) :
    /\ fields[i].num \in varints => fields[i].wire = 0
    /\ fields[i].num \in delims => fields[i].wire = 2

\* The value of the bool field numbered num: its last occurrence, false when
\* it does not occur.
BoolField(fields, num) ==
  LET f == SelectSeq(fields, LAMBDA x : x.num = num)
  IN f # <<>> /\ (Last(f).val # 0 \/ Last(f).hi # 0)

\* CommonMode, PosixMode, WinMode, from the split message w
DecMode(w) ==
  IF ~w.ok \/ ~WireTypesOk(w.fields, {1, 2}, {}) THEN [ok |-> FALSE, val |-> 0]
  ELSE [ok |-> TRUE,
        val |-> 1 + (IF BoolField(w.fields, 1) THEN 1 ELSE 0)
                  + (IF BoolField(w.fields, 2) THEN 2 ELSE 0)]

\* The optional mode message numbered num of a File.
DecModeField(fields, num) ==
  LET f == SelectSeq(fields, LAMBDA x : x.num = num)
  IN IF f = <<>> THEN [ok |-> TRUE, val |-> 0] ELSE DecMode(WireFields(Last(f).bytes))

\* A File decoder that drops the size and the modes.
DecFileNameOnly(name, w) == [ok |-> w.ok, val |-> File(name, 0)]

DecFile(name, w) ==
  LET f == SelectSeq(w.fields, LAMBDA x : x.num = 1)
      size == IF f = <<>> THEN U64(0) ELSE <<Last(f).val, Last(f).wide[1], Last(f).wide[2]>>
      modes == [k \in 2..4 |-> DecModeField(w.fields, k)]
  IN
  IF ~w.ok \/ ~WireTypesOk(w.fields, {1}, {2, 3, 4}) THEN [ok |-> FALSE, val |-> NoKind(name)]
  ELSE [ok |-> \A k \in 2..4 : modes[k].ok,
        val |-> [File64(name, size) EXCEPT !.common = modes[2].val, !.posix = modes[3].val,
                                           !.win = modes[4].val]]

DecSymLink(name, w) ==
  LET f == SelectSeq(w.fields, LAMBDA x : x.num = 1) IN
  IF ~w.ok \/ ~WireTypesOk(w.fields, {}, {1}) THEN [ok |-> FALSE, val |-> NoKind(name)]
  ELSE [ok |-> TRUE, val |-> SymLink(name, [i \in 1..Len(f) |-> f[i].bytes])]

RECURSIVE DecTree(_)
RECURSIVE DecEntry(_)
DecEntry(w) ==
  LET f == SelectSeq(w.fields, LAMBDA x : x.num = 1)
      name == IF f = <<>> THEN <<>> ELSE Last(f).bytes
      kinds == SelectSeq(w.fields, LAMBDA x : x.num \in {2, 3, 4})
      Sub(t) == [ok |-> t.ok, val |-> Tree(name, t.val)]
  IN
  IF ~w.ok \/ ~WireTypesOk(w.fields, {}, {1, 2, 3, 4}) THEN [ok |-> FALSE, val |-> NoKind(<<>>)]
  ELSE IF kinds = <<>> THEN [ok |-> TRUE, val |-> NoKind(name)]
  ELSE CASE Last(kinds).num = 2 -> DecFile(name, WireFields(Last(kinds).bytes))
         [] Last(kinds).num = 3 -> DecSymLink(name, WireFields(Last(kinds).bytes))
         [] OTHER -> Sub(DecTree(WireFields(Last(kinds).bytes)))

DecTree(w) ==
  LET f == SelectSeq(w.fields, LAMBDA x : x.num = 1)
      Res(es) == [ok |-> \A i \in 1..Len(es) : es[i].ok, val |-> [i \in 1..Len(es) |-> es[i].val]]
  IN
  IF ~w.ok \/ ~WireTypesOk(w.fields, {}, {1}) THEN [ok |-> FALSE, val |-> <<>>]
  ELSE Res([i \in 1..Len(f) |-> DecEntry(WireFields(f[i].bytes))])

\* proto.Unmarshal into a TOC
Unmarshal(bytes) ==
  LET w == WireFields(bytes)
      f == SelectSeq(w.fields, LAMBDA x : x.num = 2)
      Res(root) ==
        [ok |-> root.ok,
         val |-> [caseSafe |-> BoolField(w.fields, 1), hasRoot |-> f # <<>>, root |-> root.val]]
  IN
  IF ~w.ok \/ ~WireTypesOk(w.fields, {1}, {2})
    THEN [ok |-> FALSE, val |-> [caseSafe |-> FALSE, hasRoot |-> FALSE, root |-> <<>>]]
  ELSE Res(IF f = <<>> THEN [ok |-> TRUE, val |-> <<>>] ELSE DecTree(WireFields(Last(f).bytes)))

(***************************************************************************)
(* sardata/toc: validation.  Each operator returns the error of the Go     *)
(* method; the annotations ("in entry ...") are left out.                  *)
(***************************************************************************)
\* The bytes the regexp badChars matches.  Its Go literal "[<>:\"/\\|?*\x00-\x1f]"
\* is the pattern [<>:"/\|?*...], in which \| is an escaped | : the class
\* holds < > : " / | ? * and 0x00-0x1f, and no backslash.
badChars == {60, 62, 58, 34, 47, 124, 63, 42} \cup (0..31)

Dot == <<46>>

DotDot == <<46, 46>>

checkPathPiece(piece, allowRel) ==
  IF piece = <<>> THEN Err("EmptyPathComponent")
  ELSE IF piece = Dot THEN Err("DotPathComponent")
  ELSE IF \E i \in 1..Len(piece) : piece[i] \in badChars THEN Err("BadChar")
  ELSE IF ~allowRel /\ piece = DotDot THEN Err("RelativeSegment")
  ELSE Nil

\* strings.ToLower on the ASCII names of the model
ToLower(name) ==
  [i \in 1..Len(name) |-> IF name[i] \in 65..90 THEN name[i] + 32 ELSE name[i]]

\* SymLink.Validate: the loop over the target from piece i on, `level` being
\* the number of ".." pieces seen so far.
RECURSIVE SymLinkValidateFrom(_, _, _, _)
SymLinkValidateFrom(target, i, level, depth) ==
  IF i > Len(target) THEN Nil
  ELSE LET e == checkPathPiece(target[i], TRUE) IN
    IF ~IsNil(e) THEN e
    ELSE IF target[i] = DotDot
      THEN IF level + 1 > depth THEN Err("EscapesRoot")
           ELSE SymLinkValidateFrom(target, i + 1, level + 1, depth)
    ELSE SymLinkValidateFrom(target, i + 1, level, depth)

\* A SymLink.Validate that is one level too strict.
SymLinkValidateOffByOne(target, depth) ==
  IF Len(target) = 0 THEN Err("EmptySymlinkTarget")
  ELSE SymLinkValidateFrom(target, 1, 0, depth - 1)

\* SymLink.Validate
SymLinkValidate(target, depth) ==
  IF Len(target) = 0 THEN Err("EmptySymlinkTarget")
  ELSE SymLinkValidateFrom(target, 1, 0, depth)

\* File.Validate
FileValidate(e) == Nil

RECURSIVE TreeValidateFrom(_, _, _, _)
RECURSIVE EntryValidate(_, _, _)
\* Entry.Validate
EntryValidate(e, caseSafe, depth) ==
  LET n == checkPathPiece(e.name, FALSE) IN
  IF ~IsNil(n) THEN n
  ELSE CASE e.kind = "File" -> FileValidate(e)
         [] e.kind = "Tree" -> TreeValidateFrom(e.entries, 1, caseSafe, depth)
         [] e.kind = "Symlink" -> SymLinkValidate(e.target, depth)
         [] OTHER -> Err("Panic")

\* Tree.Validate: the loop over the entries from entry i on; the names and
\* lowerNames sets hold the names of the entries before i.
TreeValidateFrom(entries, i, caseSafe, depth) ==
  IF i > Len(entries) THEN Nil
  ELSE LET e == entries[i] IN
    IF \E j \in 1..(i - 1) : entries[j].name = e.name THEN Err("DuplicateEntry")
    ELSE IF caseSafe /\ \E j \in 1..(i - 1) : ToLower(entries[j].name) = ToLower(e.name)
      THEN Err("CaseSensitiveEntry")
    ELSE LET v == EntryValidate(e, caseSafe, depth + 1) IN
      IF ~IsNil(v) THEN v ELSE TreeValidateFrom(entries, i + 1, caseSafe, depth)

TreeValidate(entries, caseSafe, depth) == TreeValidateFrom(entries, 1, caseSafe, depth)

\* A Validate that takes the entries of the root to be one level down.
ValidateFromZero(t) == TreeValidate(t.root, t.caseSafe, 0)

\* TOC.Validate
Validate(t) == TreeValidate(t.root, t.caseSafe, -1)

(***************************************************************************)
(* TOC.LoopItems with its explicit stack: nodes and indexes are the two    *)
(* stacks, path the shared path slice, out the calls of cb made so far     *)
(* (cb returning nil).  LoopInner is the for loop over curNode from i.     *)
(***************************************************************************)
RECURSIVE LoopOuter(_, _, _, _)
RECURSIVE LoopInner(_, _, _, _, _, _)
LoopInner(curNode, i, nodes, indexes, path, out) ==
  IF i >= Len(curNode) THEN LoopOuter(nodes, indexes, path, out)
  ELSE LET e == curNode[i + 1]
           path2 == Append(Take(path, Len(nodes)), e.name)
           out2 == Append(out, [path |-> path2, ent |-> e])
       IN
    IF e.kind = "Tree"
      THEN LoopOuter(nodes \o <<curNode, e.entries>>, indexes \o <<i + 1, 0>>, path2, out2)
      ELSE LoopInner(curNode, i + 1, nodes, indexes, path2, out2)

LoopOuter(nodes, indexes, path, out) ==
  IF Len(nodes) = 0 THEN out
  ELSE LoopInner(Last(nodes), Last(indexes), Take(nodes, Len(nodes) - 1),
                 Take(indexes, Len(indexes) - 1), path, out)

\* The calls LoopItems makes to cb, in order; a TOC without a root makes it
\* dereference nil.
LoopItems(t) ==
  [panic |-> ~t.hasRoot,
   items |-> IF t.hasRoot THEN LoopOuter(<<t.root>>, <<0>>, <<>>, <<>>) ELSE <<>>]

(***************************************************************************)
(* sardata/toc.go                                                          *)
(***************************************************************************)
\* WriteTOC: the bytes it writes.
WriteTOC(t, scheme) == BlockWriter(scheme, Marshal(t))

\* ReadTOC over the bytes `view` readable from the reader.  n is the number
\* of bytes it consumes: the header, then the block up to its limit (ReadAll
\* reads the decoder to its end; a flate decoder buffers its whole input).
ReadTOC(view) ==
  LET none == [caseSafe |-> FALSE, hasRoot |-> FALSE, root |-> <<>>]
      br == BlockReader(view, 0)
      body == SubSeq(view, br.n + 1, Min(br.n + br.limit, Len(view)))
      d == Decompress(br.c, body)
      n == br.n + Len(body)
      Checked(u) ==
        IF ~u.ok THEN [err |-> Err("ProtoError"), toc |-> u.val, n |-> n]
        ELSE [err |-> Validate(u.val), toc |-> u.val, n |-> n]
  IN
  IF ~IsNil(br.err) THEN [err |-> br.err, toc |-> none, n |-> br.n]
  ELSE IF d.err.kind # "EOF" THEN [err |-> d.err, toc |-> none, n |-> n]
  ELSE Checked(Unmarshal(d.data))

(***************************************************************************)
(* The archives the model opens.  open_test.go builds its archive by hand: *)
(* a ChecksumWriter over the sink, then the magic, the TOC block and the   *)
(* data block holding the files' payloads in traversal order.              *)
(***************************************************************************)
\* The files of a TOC in traversal order.
Files(t) == SelectSeq(LoopItems(t).items, LAMBDA it : it.ent.kind = "File")

\* The decompressed data stream written for a TOC: byte j of the stream is
\* 64 + j, so a file's payload tells where in the stream it came from.
DataOf(t) == [j \in 1..SumSeq([i \in 1..Len(Files(t)) |-> Files(t)[i].ent.size]) |-> 64 + j]

\* The offset of file k (in traversal order) in the data stream.
OffsetOf(t, k) == SumSeq([i \in 1..(k - 1) |-> Files(t)[i].ent.size])

\* The payload of file k.
PayloadOf(t, k) == SubSeq(DataOf(t), OffsetOf(t, k) + 1, OffsetOf(t, k) + Files(t)[k].ent.size)

\* open_test.go: csumWriter, WriteMagic, WriteTOC, BlockWriter, Close, Close.
WriteArchive(t, data, compression, checksum) ==
  ChecksumWriter(checksum, WriteMagic \o WriteTOC(t, compression) \o BlockWriter(compression, data))

\* The archive with the last byte before its trailer changed ("flip a byte
\* inside the data block").
FlipLast(bytes) ==
  LET at == ParseTrailer(bytes, 0).nominalEnd IN
  [i \in 1..Len(bytes) |-> IF i = at THEN (bytes[i] + 1) % 256 ELSE bytes[i]]

\* The bytes before the trailer do not hash to the trailer's digest.
PayloadMismatch(bytes) ==
  LET t == ParseTrailer(bytes, 0) IN
  /\ IsNil(t.err)
  /\ t.c # ChecksumNULL
  /\ HashSum(t.c, HashWrite(t.c, HashNew(t.c), Take(bytes, t.nominalEnd))) # t.nominalChecksum

\* names: a b c d s z
NameA == <<97>>

NameB == <<98>>

NameC == <<99>>

NameD == <<100>>

NameS == <<115>>

NameZ == <<122>>

\* The TOCs archived: the shape of open_test.go's mockTOC (files around a
\* tree), a tree holding a symlink that climbs to its parent, a TOC of empty files
\* and an empty root.  Sizes run over 0..MaxFileSize.
TOCs ==
  { TOC(TRUE, <<File(NameA, MaxFileSize), Tree(NameD, <<FileMode(NameB, 1, 2, 2, 0)>>)>>),
    TOC(FALSE, <<Tree(NameD, <<SymLink(NameS, <<DotDot, NameA>>)>>), File(NameA, MaxFileSize)>>),
    TOC(FALSE, <<>>) }

(***************************************************************************)
(* The state: one archive file, one caller that opens it and then calls    *)
(* Close and UnpackTo, the target directory, and while an UnpackTo runs    *)
(* its goroutines.                                                         *)
(***************************************************************************)
VARIABLES
  file,       \* the bytes of the source handed to Open
  written,    \* how the source was written: the TOC, the schemes, and whether a byte was changed after
              \* (for a component on its own: the input its caller chose)
  opts,       \* openOptionData
  pos,        \* the source's offset
  srcClosed,  \* Close was called on the source
  ar,         \* the OpenedArchive: didClose, TOC, the checksum layer cs, the data reader dr
  openRes,    \* what Open returned: its error and the stage it reached
  pc,         \* the caller: "start", "failed", "idle", "unpack" (and "cs_start", "cs_open",
              \* "cs_closed" for the caller of a stand-alone ChecksumReader; the callers of the
              \* other components on their own have their own labels)
  calls,      \* Close and UnpackTo calls made so far
  last,       \* the last call that returned (for a reader on its own: what it has handed out)
  snap,       \* whether the target met UnpackTo's requirement when the running call began
  fs,         \* the target: relative path -> node; <<>> is the root itself
  handles,    \* the paths of the open file handles
  faults,     \* filesystem calls that have failed
  ctx,        \* the context: cancelled, and the traversal index when that happened
  trav,       \* the traversal goroutine (for LoopItems on its own: its stacks and path)
  tasks,      \* the background tasks, by item index
  wg,         \* the WaitGroup's counter
  ech,        \* the error channel's buffer
  echClosed,  \* the error channel is closed
  hadError,   \* UnpackTo's hadError
  pipe        \* the read-ahead pipe and its producer goroutine

vars ==
  <<file, written, opts, pos, srcClosed, ar, openRes, pc, calls, last, snap, fs, handles,
    faults, ctx, trav, tasks, wg, ech, echClosed, hadError, pipe>>

VerifyLate == 0

VerifyEarly == 1

VerifyNever == 2

\* Open's default for unpackBufferSize
DefaultUnpackBufferSize == 16777216

\* errors.Annotate(err)...Err(): nil stays nil, an error keeps its kind.
Annotate(err) == err

(***************************************************************************)
(* The data reader a.r: the decoder BlockReader returns over a LimitReader *)
(* of N bytes.  A flate decoder pulls its input through a 4096-byte        *)
(* buffer, so its first Read takes the whole (short) block from below; buf *)
(* is what it has decoded and not yet handed out, err what ends it.        *)
(***************************************************************************)
NewDataReader(c, limit) == [c |-> c, N |-> limit, started |-> FALSE, buf |-> <<>>, err |-> Nil]

\* Reading from a.r until n bytes came or it ended (io.Copy of a
\* LimitReader(a.r, n)); err is nil when n bytes came.
DataRead(dr, cs, bytes, at, n) ==
  LET Plain(r) ==
        [dr |-> [dr EXCEPT !.N = @ - Len(r.data)], cs |-> r.cs, pos |-> r.pos,
         data |-> r.data, err |-> IF Len(r.data) = n THEN Nil ELSE Err("EOF")]
      Inflated(r, d) ==
        [dr |-> [dr EXCEPT !.N = @ - Len(r.data), !.started = TRUE, !.buf = Drop(d.data, n),
                           !.err = d.err],
         cs |-> r.cs, pos |-> r.pos, data |-> Take(d.data, n),
         err |-> IF Len(d.data) >= n THEN Nil ELSE d.err]
      First(r) == Inflated(r, FlateDecode(r.data))
  IN
  IF n <= 0 THEN [dr |-> dr, cs |-> cs, pos |-> at, data |-> <<>>, err |-> Nil]
  ELSE IF dr.c = CompressionNone THEN Plain(CsRead(cs, bytes, at, Min(n, dr.N)))
  ELSE IF dr.started
    THEN Inflated([cs |-> cs, pos |-> at, data |-> <<>>], [data |-> dr.buf, err |-> dr.err])
  ELSE First(CsRead(cs, bytes, at, dr.N))

\* Close of the reader CompressionScheme.Reader returned: readCloseHook{r, nil}
\* for None, the flate decompressor for Flate.  Neither closes the reader it
\* wraps (closesInner).
DataReaderClose(dr) ==
  [err |-> IF dr.c = CompressionFlate /\ dr.started /\ dr.err.kind # "EOF" THEN dr.err ELSE Nil,
   closesInner |-> FALSE]

\* a.r.Close(): the error it returns and whether the source got closed.  Were
\* the decoder to close what it wraps, the checksum layer's hook (or, without
\* the layer, the source) would be next.
ArchiveReaderClose(a, at) ==
  LET d == DataReaderClose(a.dr) IN
  IF ~d.closesInner \/ ~IsNil(d.err) THEN [err |-> d.err, closes |-> FALSE]
  ELSE IF a.cs.on THEN ChecksumClose(a.cs, at)
  ELSE [err |-> Nil, closes |-> TRUE]

(***************************************************************************)
(* sar/open.go                                                             *)
(***************************************************************************)
\* A setUpReader that puts the checksum layer on in every mode but Early.
setUpReaderAlwaysLayered(bytes, at, verifyState) ==
  LET Late(c) == [cs |-> c.rd, err |-> c.err, pos |-> c.pos, trailer |-> TRUE]
      Verify(t, curLoctation, got, copyErr) ==
        IF t.nominalChecksum # HashSum(t.c, HashWrite(t.c, HashNew(t.c), got))
          THEN [cs |-> NoChecksum, err |-> Annotate(copyErr), pos |-> curLoctation + Len(got),
                trailer |-> TRUE]
          ELSE [cs |-> NoChecksum, err |-> Nil, pos |-> curLoctation, trailer |-> TRUE]
      Early(t) ==
        IF ~IsNil(t.err)
          THEN [cs |-> NoChecksum, err |-> Annotate(t.err), pos |-> t.pos, trailer |-> TRUE]
        ELSE Verify(t, t.pos,
                    SubSeq(bytes, t.pos + 1,
                           Min(t.pos + (IF t.nominalEnd > t.pos THEN t.nominalEnd - t.pos ELSE 0),
                               Len(bytes))),
                    Nil)
  IN
  IF verifyState # VerifyEarly THEN Late(ChecksumReader(bytes, at))
  ELSE Early(ParseTrailer(bytes, at))

\* openOptionData.setUpReader: the checksum layer (or none), the error,
\* where the source is left, and whether the trailer was sought and read
\* (ParseTrailer was called).
setUpReader(bytes, at, verifyState) ==
  LET Late(c) == [cs |-> c.rd, err |-> c.err, pos |-> c.pos, trailer |-> TRUE]
      \* io.Copy(hsh, io.LimitReader(r, nominalEnd)) from curLoctation
      Verify(t, curLoctation, got, copyErr) ==
        IF t.nominalChecksum # HashSum(t.c, HashWrite(t.c, HashNew(t.c), got))
          THEN [cs |-> NoChecksum, err |-> Annotate(copyErr), pos |-> curLoctation + Len(got),
                trailer |-> TRUE]
          ELSE [cs |-> NoChecksum, err |-> Nil, pos |-> curLoctation, trailer |-> TRUE]
      Early(t) ==
        IF ~IsNil(t.err)
          THEN [cs |-> NoChecksum, err |-> Annotate(t.err), pos |-> t.pos, trailer |-> TRUE]
        ELSE Verify(t, t.pos,
                    SubSeq(bytes, t.pos + 1,
                           Min(t.pos + (IF t.nominalEnd > t.pos THEN t.nominalEnd - t.pos ELSE 0),
                               Len(bytes))),
                    Nil)
  IN
  IF verifyState = VerifyLate THEN Late(ChecksumReader(bytes, at))
  ELSE IF verifyState = VerifyNever
    THEN [cs |-> NoChecksum, err |-> Nil, pos |-> at, trailer |-> FALSE]
  ELSE Early(ParseTrailer(bytes, at))

\* a.rawTOCBuf when Open was not given WithRawTOC(true): nil
NoRawTOC == [set |-> FALSE, bytes |-> <<>>]

NoArchive ==
  [didClose |-> FALSE, TOC |-> [caseSafe |-> FALSE, hasRoot |-> FALSE, root |-> <<>>],
   cs |-> NoChecksum, dr |-> NewDataReader(0, 0), rawTOCBuf |-> NoRawTOC]

\* A tee that has been on the reader since its first byte.
TeeReaderFromStart(view, from, n) == SubSeq(view, 1, from + n)

\* io.TeeReader(openedReader, ar.rawTOCBuf): what the buffer holds once n
\* bytes were read through the tee, `from` bytes having been read from the
\* reader before the tee was put on it.
TeeReader(view, from, n) == SubSeq(view, from + 1, from + n)

\* OpenedArchive.RawTOC
RawTOC(a) ==
  IF a.rawTOCBuf.set THEN [data |-> a.rawTOCBuf.bytes, err |-> Nil]
  ELSE [data |-> <<>>, err |-> Err("MustSupplyWithRawTOC")]

\* Open: the archive (when err is nil), the stage reached, the source offset.
OpenArchive(bytes, verifyState, rawTOC) ==
  LET su == setUpReader(bytes, 0, verifyState)
      view == SubSeq(bytes, su.pos + 1, su.pos + CsAvail(su.cs, bytes, su.pos, Len(bytes)))
      m == ReadMagic(view)
      Fail(stage, err, n) ==
        [err |-> err, stage |-> stage, ar |-> NoArchive, pos |-> su.pos + n,
         trailer |-> su.trailer]
      Done(t, b, r) ==
        [err |-> Nil, stage |-> "ok",
         ar |-> [didClose |-> FALSE, TOC |-> t.toc, cs |-> r.cs, dr |-> NewDataReader(b.c, b.limit),
                 rawTOCBuf |-> IF rawTOC THEN [set |-> TRUE, bytes |-> TeeReader(view, m.n, t.n)]
                               ELSE NoRawTOC],
         pos |-> r.pos, trailer |-> su.trailer]
      Data(t, b) ==
        IF ~IsNil(t.err) THEN Fail("toc", t.err, m.n + t.n)
        ELSE IF ~IsNil(b.err) THEN Fail("data", b.err, m.n + t.n + b.n)
        ELSE Done(t, b, CsRead(su.cs, bytes, su.pos, m.n + t.n + b.n))
      Body(t) == Data(t, BlockReader(view, m.n + t.n))
  IN
  IF ~IsNil(su.err) THEN Fail("setUpReader", su.err, 0)
  ELSE IF ~IsNil(m.err) THEN Fail("magic", m.err, m.n)
  ELSE IF m.version # 1 THEN Fail("magic", Err("UnsupportedVersion"), m.n)
  ELSE Body(ReadTOC(Drop(view, m.n)))

\* var totalSize uint64; totalSize += f.Size for the files from the k-th on
RECURSIVE totalSizeFrom(_, _, _)
totalSizeFrom(files, k, sum) ==
  IF k > Len(files) THEN sum ELSE totalSizeFrom(files, k + 1, Add64(sum, files[k].ent.size64))

totalSize(t) == totalSizeFrom(Files(t), 1, U64(0))

\* OpenedArchive.Close on an archive that is not closed yet, the source at
\* `at`: the error, and what became of the readers and the source.
CloseArchive(a, bytes, at, verifyState) ==
  IF verifyState \in {VerifyEarly, VerifyNever}
    THEN LET c == ArchiveReaderClose(a, at) IN
         [err |-> c.err, closes |-> c.closes, dr |-> a.dr, cs |-> a.cs, pos |-> at]
  ELSE LET Drained(r, c) ==
             IF r.err.kind \notin {"nil", "EOF"}
               THEN [err |-> r.err, closes |-> FALSE, dr |-> r.dr, cs |-> r.cs, pos |-> r.pos]
               ELSE [err |-> c.err, closes |-> c.closes, dr |-> r.dr, cs |-> r.cs, pos |-> r.pos]
           Drain(r) == Drained(r, ArchiveReaderClose([a EXCEPT !.dr = r.dr, !.cs = r.cs], r.pos))
       IN Drain(DataRead(a.dr, a.cs, bytes, at, Int64(totalSize(a.TOC))))

(***************************************************************************)
(* The target directory.  A node is a directory, a file with its content   *)
(* and its write and execute permission, or a symlink with its target.     *)
(***************************************************************************)
DirNode == [kind |-> "dir", content |-> <<>>, w |-> TRUE, x |-> TRUE, target |-> <<>>]

FileNode(content) == [kind |-> "file", content |-> content, w |-> TRUE, x |-> FALSE, target |-> <<>>]

LinkNode(target) == [kind |-> "symlink", content |-> <<>>, w |-> TRUE, x |-> TRUE, target |-> target]

Put(f, path, node) == [q \in DOMAIN f \cup {path} |-> IF q = path THEN node ELSE f[q]]

Parent(path) == Take(path, Len(path) - 1)

IsDir(f, path) == path \in DOMAIN f /\ f[path].kind = "dir"

\* The four targets UnpackTo is pointed at: an absent path, an empty
\* directory, a directory holding a file z, and a regular file.
RootAbsent == << >>

RootEmpty == (<<>> :> DirNode)

RootNonEmpty == (<<>> :> DirNode) @@ (<<NameZ>> :> FileNode(<<1>>))

RootFile == (<<>> :> FileNode(<<1>>))

\* What UnpackTo requires of its target: absent, or an empty directory.
RootOk(f) == <<>> \notin DOMAIN f \/ (IsDir(f, <<>>) /\ DOMAIN f = {<<>>})

\* os.Mkdir
CanMkdir(f, path) == IsDir(f, Parent(path)) /\ path \notin DOMAIN f

\* os.Create
CanCreate(f, path) == IsDir(f, Parent(path)) /\ ~IsDir(f, path)

\* os.Symlink
CanSymlink(f, path) == IsDir(f, Parent(path)) /\ path \notin DOMAIN f

\* filepath.Join of the components of a symlink target: the cleaned path, in
\* which a ".." cancels the ordinary component before it.
RECURSIVE CleanFrom(_, _, _)
CleanFrom(target, i, acc) ==
  IF i > Len(target) THEN acc
  ELSE IF target[i] = DotDot /\ acc # <<>> /\ Last(acc) # DotDot
    THEN CleanFrom(target, i + 1, Take(acc, Len(acc) - 1))
    ELSE CleanFrom(target, i + 1, Append(acc, target[i]))

JoinTarget(target) == LET c == CleanFrom(target, 1, <<>>) IN IF c = <<>> THEN <<Dot>> ELSE c

\* ensureRoot, given whether os.Stat fails with something other than
\* "not exist" and whether MkdirAll fails: the error and the target after it.
\* An existing root of any kind takes the first branch with a nil error.
ensureRoot(f, statFails, mkdirFails) ==
  IF statFails THEN [err |-> Err("StatError"), fs |-> f]
  ELSE IF <<>> \in DOMAIN f THEN [err |-> Nil, fs |-> f]
  ELSE IF mkdirFails THEN [err |-> Annotate(Err("MkdirAllError")), fs |-> f]
  ELSE [err |-> Nil, fs |-> Put(f, <<>>, DirNode)]

(***************************************************************************)
(* sar/unpack.go: the goroutines of one UnpackTo.                          *)
(***************************************************************************)
TravOff == [pc |-> "off", idx |-> 0, pending |-> Nil, next |-> "off", left |-> 0]

NoTask == [pc |-> "none", pending |-> Nil]

NoPipe == [on |-> FALSE, buf |-> <<>>, closed |-> FALSE, err |-> Nil, producer |-> "off"]

Items == LoopItems(ar.TOC).items

\* bufio.NewReaderSize: the size of the read-ahead buffer
ReadAheadSize == IF opts.unpackBufferSize < 16 THEN 16 ELSE opts.unpackBufferSize

CanFail == faults < MaxFaults

\* The record of a call that returned: its error, whether it found the archive
\* in the Open state, whether it read or closed the source or changed the
\* target, whether its context was cancelled while it traversed, and
\* whether the target was absent or an empty directory before the call.
Returned(op, err, first, touched, cancelled, rootOk) ==
  [op |-> op, err |-> err, first |-> first, touched |-> touched,
   cancelled |-> cancelled, rootOk |-> rootOk]

\* A gate that never finds the archive closed.
NeverClosed(a) == FALSE

\* if a.didClose
DidClose(a) == a.didClose

\* No call made yet, no goroutine running.
AtRest ==
  /\ opts = [verifyState |-> VerifyLate, rawTOC |-> FALSE,
             unpackBufferSize |-> DefaultUnpackBufferSize]
  /\ pos = 0
  /\ srcClosed = FALSE
  /\ ar = NoArchive
  /\ openRes = [err |-> Nil, stage |-> "none", trailer |-> FALSE]
  /\ calls = 0
  /\ last = Returned("none", Nil, FALSE, FALSE, FALSE, TRUE)
  /\ snap = [rootOk |-> TRUE]
  /\ handles = {}
  /\ faults = 0
  /\ ctx = [cancelled |-> FALSE, at |-> 0]
  /\ trav = TravOff
  /\ tasks = <<>>
  /\ wg = 0
  /\ ech = <<>>
  /\ echClosed = FALSE
  /\ hadError = FALSE
  /\ pipe = NoPipe

Init ==
  /\ \E t \in TOCs, compression \in {CompressionNone, CompressionFlate},
        checksum \in {ChecksumSHA2_256, ChecksumNULL} :
     \E flip \in {FALSE} \cup {b \in {TRUE} : checksum # ChecksumNULL} :
       LET a == WriteArchive(t, DataOf(t), compression, checksum) IN
       /\ written = [TOC |-> t, compression |-> compression, checksum |-> checksum,
                     flipped |-> flip]
       /\ file = IF flip THEN FlipLast(a) ELSE a
  /\ fs \in {RootAbsent, RootEmpty, RootNonEmpty, RootFile}
  /\ pc = "start"
  /\ AtRest

\* Open(r, WithVerification(verifyState), WithRawTOC(rawTOC),
\* WithUnpackBufferSize(size)), verifyState being one of verifyStates and
\* rawTOC one of rawTOCs
OpenWith(verifyStates, rawTOCs) ==
  /\ pc = "start"
  /\ LET Opened(verifyState, rawTOC, size, o) ==
           /\ opts' = [verifyState |-> verifyState, rawTOC |-> rawTOC, unpackBufferSize |-> size]
           /\ openRes' = [err |-> o.err, stage |-> o.stage, trailer |-> o.trailer]
           /\ ar' = o.ar
           /\ pos' = o.pos
           /\ pc' = IF IsNil(o.err) THEN "idle" ELSE "failed"
     IN \E verifyState \in verifyStates, rawTOC \in rawTOCs,
           size \in {0, DefaultUnpackBufferSize} :
          Opened(verifyState, rawTOC, size, OpenArchive(file, verifyState, rawTOC))
  /\ UNCHANGED <<file, written, srcClosed, calls, last, snap, fs, handles, faults, ctx, trav,
                 tasks, wg, ech, echClosed, hadError, pipe>>

\* Open(r, WithVerification(verifyState), WithUnpackBufferSize(size))
Open == OpenWith({VerifyLate, VerifyEarly, VerifyNever}, {FALSE})

\* OpenedArchive.Close
Close ==
  /\ pc = "idle"
  /\ calls < MaxCalls
  /\ calls' = calls + 1
  /\ IF DidClose(ar)
       THEN /\ last' = Returned("Close", Nil, FALSE, FALSE, FALSE, RootOk(fs))
            /\ UNCHANGED <<ar, pos, srcClosed>>
       ELSE LET Closed(c) ==
                  /\ ar' = [ar EXCEPT !.didClose = TRUE, !.dr = c.dr, !.cs = c.cs]
                  /\ pos' = c.pos
                  /\ srcClosed' = (srcClosed \/ c.closes)
                  /\ last' = Returned("Close", c.err, TRUE,
                                       c.pos # pos \/ c.closes \/ c.dr # ar.dr, FALSE, RootOk(fs))
            IN Closed(CloseArchive(ar, file, pos, opts.verifyState))
  /\ UNCHANGED <<file, written, opts, openRes, pc, snap, fs, handles, faults, ctx, trav, tasks,
                 wg, ech, echClosed, hadError, pipe>>

\* UnpackTo up to the start of its goroutines: the didClose gate, ensureRoot,
\* prepReader.
UnpackTo ==
  /\ pc = "idle"
  /\ calls < MaxCalls
  /\ calls' = calls + 1
  /\ IF DidClose(ar)
       THEN /\ last' = Returned("UnpackTo", Err("DoubleUnpack"), FALSE, FALSE, FALSE, RootOk(fs))
            /\ UNCHANGED <<ar, pc, snap, fs, faults, ctx, trav, tasks, wg, ech, echClosed,
                           hadError, pipe>>
       ELSE \E statFails \in {FALSE} \cup {b \in {TRUE} : CanFail} :
            \E mkdirFails \in {FALSE} \cup {b \in {TRUE} : CanFail /\ ~statFails /\ <<>> \notin DOMAIN fs} :
              LET e == ensureRoot(fs, statFails, mkdirFails) IN
              /\ ar' = [ar EXCEPT !.didClose = TRUE]
              /\ faults' = IF statFails \/ mkdirFails THEN faults + 1 ELSE faults
              /\ fs' = e.fs
              /\ ctx' = [cancelled |-> FALSE, at |-> 0]
              /\ IF ~IsNil(e.err)
                   THEN /\ last' = Returned("UnpackTo", Annotate(e.err), TRUE, FALSE, FALSE, RootOk(fs))
                        /\ UNCHANGED <<pc, snap, trav, tasks, wg, ech, echClosed, hadError, pipe>>
                   ELSE /\ pc' = "unpack"
                        /\ snap' = [rootOk |-> RootOk(fs)]
                        /\ pipe' = IF opts.unpackBufferSize > 0
                                     THEN [NoPipe EXCEPT !.on = TRUE, !.producer = "run"]
                                     ELSE NoPipe
                        /\ trav' = [TravOff EXCEPT !.pc = "entry"]
                        /\ tasks' = [i \in 1..Len(Items) |-> NoTask]
                        /\ wg' = 0
                        /\ ech' = <<>>
                        /\ echClosed' = FALSE
                        /\ hadError' = FALSE
                        /\ UNCHANGED last
  /\ UNCHANGED <<file, written, opts, pos, srcClosed, openRes, handles>>

\* The traversal leaves the entry it is at with an error to send.
TravFail(err) == [trav EXCEPT !.pc = "send", !.pending = err, !.next = "entry", !.idx = @ + 1, !.left = 0]

\* The traversal is done with the entry it is at.
TravNext == [trav EXCEPT !.pc = "entry", !.idx = @ + 1, !.left = 0]

\* wg.Add(1); go func() ...
Spawn(i) == [tasks EXCEPT ![i] = [pc |-> "run", pending |-> Nil]]

\* One call of the LoopItems callback, up to the point where it blocks (a
\* send on ech, a read from the pipe) or returns; after the last entry, the
\* send of LoopItems' result.
TravEntry ==
  /\ pc = "unpack"
  /\ trav.pc = "entry"
  /\ IF trav.idx >= Len(Items)
       THEN /\ trav' = [trav EXCEPT !.pc = "send", !.pending = Nil, !.next = "wait"]
            /\ UNCHANGED <<fs, handles, faults, tasks, wg, ar, pos>>
       ELSE LET i == trav.idx + 1
                ent == Items[i].ent
                abs == Items[i].path
            IN
         CASE ent.kind = "Tree" ->
                \E fails \in {~CanMkdir(fs, abs)} \cup {b \in {TRUE} : CanFail /\ CanMkdir(fs, abs)} :
                  /\ faults' = IF fails /\ CanMkdir(fs, abs) THEN faults + 1 ELSE faults
                  /\ IF fails
                       THEN /\ trav' = [trav EXCEPT !.pc = "send", !.pending = Err("FatalMkdir"),
                                                    !.next = "wait"]
                            /\ UNCHANGED fs
                       ELSE /\ fs' = Put(fs, abs, DirNode)
                            /\ trav' = TravNext
                  /\ UNCHANGED <<handles, tasks, wg, ar, pos>>
           [] ent.kind = "Symlink" ->
                /\ tasks' = Spawn(i)
                /\ wg' = wg + 1
                /\ trav' = TravNext
                /\ UNCHANGED <<fs, handles, faults, ar, pos>>
           [] OTHER ->
                \E fault \in {"none"} \cup {k \in {"create", "stat", "write"} : CanFail /\ CanCreate(fs, abs)} :
                  /\ faults' = IF fault # "none" THEN faults + 1 ELSE faults
                  /\ IF ~CanCreate(fs, abs) \/ fault = "create"
                       THEN /\ trav' = TravFail(Err("CreateError"))
                            /\ UNCHANGED <<fs, handles, tasks, wg, ar, pos>>
                     ELSE IF fault = "stat"
                       THEN /\ fs' = Put(fs, abs, FileNode(<<>>))
                            /\ handles' = handles \cup {abs}
                            /\ trav' = TravFail(Err("StatError"))
                            /\ UNCHANGED <<tasks, wg, ar, pos>>
                     ELSE IF pipe.on /\ ent.size > 0
                       THEN /\ fault = "none"
                            /\ fs' = Put(fs, abs, FileNode(<<>>))
                            /\ handles' = handles \cup {abs}
                            /\ trav' = [trav EXCEPT !.pc = "copy", !.left = ent.size]
                            /\ UNCHANGED <<tasks, wg, ar, pos>>
                     ELSE LET Copied(r) ==
                                /\ handles' = handles \cup {abs}
                                /\ ar' = [ar EXCEPT !.dr = r.dr, !.cs = r.cs]
                                /\ pos' = r.pos
                                /\ IF fault = "write" /\ r.data # <<>>
                                     THEN /\ fs' = Put(fs, abs, FileNode(<<>>))
                                          /\ trav' = TravFail(Err("WriteError"))
                                          /\ UNCHANGED <<tasks, wg>>
                                   ELSE IF r.err.kind \notin {"nil", "EOF"}
                                     THEN /\ fault = "none"
                                          /\ fs' = Put(fs, abs, FileNode(r.data))
                                          /\ trav' = TravFail(r.err)
                                          /\ UNCHANGED <<tasks, wg>>
                                   ELSE /\ fault = "none"
                                        /\ fs' = Put(fs, abs, FileNode(r.data))
                                        /\ tasks' = Spawn(i)
                                        /\ wg' = wg + 1
                                        /\ trav' = TravNext
                          IN Copied(DataRead(ar.dr, ar.cs, file, pos,
                                             IF pipe.on THEN 0 ELSE ent.size))
  /\ UNCHANGED <<file, written, opts, srcClosed, openRes, pc, calls, last, snap, ctx, ech,
                 echClosed, hadError, pipe>>

\* io.CopyBuffer from the pipe: one Read of the pipe and the Write of what it
\* gave.  The limit reader asks for no more than is left of the file.
TravCopy ==
  /\ pc = "unpack"
  /\ trav.pc = "copy"
  /\ pipe.buf # <<>> \/ pipe.closed
  /\ LET i == trav.idx + 1
         abs == Items[i].path
         m == Min(trav.left, Len(pipe.buf))
     IN
     IF pipe.buf # <<>>
       THEN \E fails \in {FALSE} \cup {b \in {TRUE} : CanFail} :
              /\ pipe' = [pipe EXCEPT !.buf = Drop(@, m)]
              /\ faults' = IF fails THEN faults + 1 ELSE faults
              /\ IF fails
                   THEN /\ trav' = TravFail(Err("WriteError"))
                        /\ UNCHANGED <<fs, tasks, wg>>
                   ELSE /\ fs' = [fs EXCEPT ![abs].content = @ \o Take(pipe.buf, m)]
                        /\ IF trav.left = m
                             THEN /\ trav' = TravNext
                                  /\ tasks' = Spawn(i)
                                  /\ wg' = wg + 1
                             ELSE /\ trav' = [trav EXCEPT !.left = @ - m]
                                  /\ UNCHANGED <<tasks, wg>>
       ELSE /\ UNCHANGED <<pipe, faults, fs>>
            /\ IF pipe.err.kind \in {"nil", "EOF"}
                 THEN /\ trav' = TravNext
                      /\ tasks' = Spawn(i)
                      /\ wg' = wg + 1
                 ELSE /\ trav' = TravFail(pipe.err)
                      /\ UNCHANGED <<tasks, wg>>
  /\ UNCHANGED <<file, written, opts, pos, srcClosed, ar, openRes, pc, calls, last, snap,
                 handles, ctx, ech, echClosed, hadError>>

\* The read-ahead goroutine of prepReader: bufio's WriteTo fills its buffer
\* from a.r and hands it to the pipe, which takes it when the last chunk has
\* been read; at the end of a.r it closes the pipe with the error.
ReadAhead ==
  /\ pipe.on
  /\ pipe.producer = "run"
  /\ pipe.buf = <<>>
  /\ LET Filled(r) ==
           /\ ar' = [ar EXCEPT !.dr = r.dr, !.cs = r.cs]
           /\ pos' = r.pos
           /\ pipe' = IF r.data # <<>>
                        THEN [pipe EXCEPT !.buf = r.data]
                        ELSE [pipe EXCEPT !.closed = TRUE, !.err = r.err, !.producer = "done"]
     IN Filled(DataRead(ar.dr, ar.cs, file, pos, ReadAheadSize))
  /\ UNCHANGED <<file, written, opts, srcClosed, openRes, pc, calls, last, snap, fs, handles,
                 faults, ctx, trav, tasks, wg, ech, echClosed, hadError>>

\* A send of the traversal goroutine on ech (capacity 1).
TravSend ==
  /\ pc = "unpack"
  /\ trav.pc = "send"
  /\ Len(ech) < 1
  /\ ech' = Append(ech, trav.pending)
  /\ trav' = [trav EXCEPT !.pc = trav.next, !.pending = Nil, !.next = "off"]
  /\ UNCHANGED <<file, written, opts, pos, srcClosed, ar, openRes, pc, calls, last, snap, fs,
                 handles, faults, ctx, tasks, wg, echClosed, hadError, pipe>>

\* A traversal goroutine that closes ech without waiting for the tasks.
TravWaitNoBarrier ==
  /\ pc = "unpack"
  /\ trav.pc = "wait"
  /\ echClosed' = TRUE
  /\ trav' = [trav EXCEPT !.pc = "done"]
  /\ UNCHANGED <<file, written, opts, pos, srcClosed, ar, openRes, pc, calls, last, snap, fs,
                 handles, faults, ctx, tasks, wg, ech, hadError, pipe>>

\* The deferred wg.Wait() and close(ech) of the traversal goroutine.
TravWait ==
  /\ pc = "unpack"
  /\ trav.pc = "wait"
  /\ wg = 0
  /\ echClosed' = TRUE
  /\ trav' = [trav EXCEPT !.pc = "done"]
  /\ UNCHANGED <<file, written, opts, pos, srcClosed, ar, openRes, pc, calls, last, snap, fs,
                 handles, faults, ctx, tasks, wg, ech, hadError, pipe>>

\* The mode ensureFile's goroutine sets: st.Mode() with x added for an
\* executable and w removed for a readonly file.
Chmod(node, ent) ==
  [node EXCEPT !.x = (ent.posix = 2), !.w = ~(ent.common = 2)]

\* f.Close() in ensureFile's goroutine, and the error it is to send.
TaskClose(i, abs, fails) ==
  /\ handles' = handles \ {abs}
  /\ tasks' = [tasks EXCEPT ![i] = [pc |-> "send", pending |-> IF fails THEN Err("CloseError") ELSE Nil]]

\* A background goroutine up to its first send: os.Symlink for a symlink;
\* Chmod, setWinFileAttributes and Close for a file.
TaskRun(i) ==
  /\ pc = "unpack"
  /\ tasks[i].pc = "run"
  /\ LET ent == Items[i].ent
         abs == Items[i].path
     IN
     IF ent.kind = "Symlink"
       THEN \E fails \in {~CanSymlink(fs, abs)} \cup {b \in {TRUE} : CanFail /\ CanSymlink(fs, abs)} :
              /\ faults' = IF fails /\ CanSymlink(fs, abs) THEN faults + 1 ELSE faults
              /\ fs' = IF fails THEN fs ELSE Put(fs, abs, LinkNode(JoinTarget(ent.target)))
              /\ tasks' = [tasks EXCEPT ![i] = [pc |-> "send",
                                                pending |-> IF fails THEN Err("SymlinkError") ELSE Nil]]
              /\ UNCHANGED handles
       ELSE \E fault \in {"none"} \cup {k \in {"chmod", "close"} : CanFail} :
              /\ faults' = IF fault # "none" THEN faults + 1 ELSE faults
              /\ IF fault = "chmod"
                   THEN /\ tasks' = [tasks EXCEPT ![i] = [pc |-> "sendChmod", pending |-> Err("ChmodError")]]
                        /\ UNCHANGED <<fs, handles>>
                   ELSE /\ fs' = [fs EXCEPT ![abs] = Chmod(@, ent)]
                        /\ TaskClose(i, abs, fault = "close")
  /\ UNCHANGED <<file, written, opts, pos, srcClosed, ar, openRes, pc, calls, last, snap, ctx,
                 trav, wg, ech, echClosed, hadError, pipe>>

\* A background goroutine that never calls wg.Done().
TaskSendNoDone(i) ==
  /\ pc = "unpack"
  /\ tasks[i].pc \in {"send", "sendChmod"}
  /\ Len(ech) < 1
  /\ ech' = Append(ech, tasks[i].pending)
  /\ IF tasks[i].pc = "sendChmod"
       THEN TaskClose(i, Items[i].path, FALSE)
       ELSE /\ tasks' = [tasks EXCEPT ![i] = [pc |-> "done", pending |-> Nil]]
            /\ UNCHANGED handles
  /\ UNCHANGED <<file, written, opts, pos, srcClosed, ar, openRes, pc, calls, last, snap, fs,
                 faults, ctx, trav, wg, echClosed, hadError, pipe>>

\* A send of a background goroutine on ech.  After the send of a Chmod error
\* the goroutine goes on to Close; after its last send it is done (wg.Done).
TaskSend(i) ==
  /\ pc = "unpack"
  /\ tasks[i].pc \in {"send", "sendChmod"}
  /\ Len(ech) < 1
  /\ ech' = Append(ech, tasks[i].pending)
  /\ IF tasks[i].pc = "sendChmod"
       THEN /\ TaskClose(i, Items[i].path, FALSE)
            /\ UNCHANGED wg
       ELSE /\ tasks' = [tasks EXCEPT ![i] = [pc |-> "done", pending |-> Nil]]
            /\ wg' = wg - 1
            /\ UNCHANGED handles
  /\ UNCHANGED <<file, written, opts, pos, srcClosed, ar, openRes, pc, calls, last, snap, fs,
                 faults, ctx, trav, echClosed, hadError, pipe>>

\* A loop over ech that remembers the last value only.
CollectLatest ==
  /\ pc = "unpack"
  /\ ech # <<>>
  /\ hadError' = ~IsNil(Head(ech))
  /\ ech' = Tail(ech)
  /\ UNCHANGED <<file, written, opts, pos, srcClosed, ar, openRes, pc, calls, last, snap, fs,
                 handles, faults, ctx, trav, tasks, wg, echClosed, pipe>>

\* One turn of UnpackTo's loop over ech.
Collect ==
  /\ pc = "unpack"
  /\ ech # <<>>
  /\ hadError' = (hadError \/ ~IsNil(Head(ech)))
  /\ ech' = Tail(ech)
  /\ UNCHANGED <<file, written, opts, pos, srcClosed, ar, openRes, pc, calls, last, snap, fs,
                 handles, faults, ctx, trav, tasks, wg, echClosed, pipe>>

\* The loop over ech ends when ech is closed and empty; UnpackTo returns the
\* error-summary or the result of checksumCloser.Close().
UnpackReturn ==
  /\ pc = "unpack"
  /\ ech = <<>>
  /\ echClosed
  /\ LET c == ArchiveReaderClose(ar, pos)
         err == IF hadError THEN Err("UnpackErrors") ELSE c.err
     IN
     /\ srcClosed' = (srcClosed \/ (~hadError /\ c.closes))
     /\ last' = Returned("UnpackTo", err, TRUE, TRUE, ctx.cancelled, snap.rootOk)
  /\ pc' = "idle"
  /\ trav' = TravOff
  /\ tasks' = <<>>
  /\ UNCHANGED <<file, written, opts, pos, ar, openRes, calls, snap, fs, handles, faults, ctx,
                 wg, ech, echClosed, hadError, pipe>>

\* The caller cancels the context while the traversal is at an entry.
Cancel ==
  /\ pc = "unpack"
  /\ ~ctx.cancelled
  /\ trav.pc \in {"entry", "copy", "send"}
  /\ trav.idx < Len(Items)
  /\ ctx' = [cancelled |-> TRUE, at |-> trav.idx]
  /\ UNCHANGED <<file, written, opts, pos, srcClosed, ar, openRes, pc, calls, last, snap, fs,
                 handles, faults, trav, tasks, wg, ech, echClosed, hadError, pipe>>

Next ==
  \/ Open
  \/ Close
  \/ UnpackTo
  \/ TravEntry
  \/ TravCopy
  \/ ReadAhead
  \/ TravSend
  \/ TravWait
  \/ \E i \in 1..Len(tasks) : TaskRun(i)
  \/ \E i \in 1..Len(tasks) : TaskSend(i)
  \/ Collect
  \/ UnpackReturn
  \/ Cancel

Spec == Init /\ [][Next]_vars

(***************************************************************************)
(* A stand-alone ChecksumReader (sardata/toc.go, TestChecksum): a source    *)
(* written through a ChecksumWriter, a caller that reads through the       *)
(* reader and then closes it.                                              *)
(***************************************************************************)
Payloads == UNION { [1..n -> {104, 105}] : n \in 0..MaxPayload }

Schemes ==
  {ChecksumSHA2_256, ChecksumSHA2_512, ChecksumSHA3_256, ChecksumSHA3_512, ChecksumNULL}

InitCS ==
  /\ \E payload \in Payloads, checksum \in Schemes :
     \E flip \in {FALSE} \cup {b \in {TRUE} : payload # <<>>} :
       LET a == ChecksumWriter(checksum, payload) IN
       /\ written = [TOC |-> TOC(FALSE, <<>>), compression |-> CompressionNone,
                     checksum |-> checksum, flipped |-> flip]
       /\ file = IF flip THEN FlipLast(a) ELSE a
  /\ fs = RootAbsent
  /\ pc = "cs_start"
  /\ AtRest

\* rc, c, err := ChecksumReader(r)
CsOpen ==
  /\ pc = "cs_start"
  /\ LET Made(r) ==
           /\ ar' = [NoArchive EXCEPT !.cs = r.rd]
           /\ pos' = r.pos
           /\ openRes' = [err |-> r.err, stage |-> "ChecksumReader"]
     IN Made(ChecksumReader(file, pos))
  /\ pc' = "cs_open"
  /\ UNCHANGED <<file, written, opts, srcClosed, calls, last, snap, fs, handles, faults, ctx,
                 trav, tasks, wg, ech, echClosed, hadError, pipe>>

\* rc.Read of up to n bytes
CsReadSome ==
  /\ pc = "cs_open"
  /\ \E n \in 1..MaxPayload :
       /\ CsAvail(ar.cs, file, pos, n) > 0
       /\ LET Got(r) ==
                /\ ar' = [ar EXCEPT !.cs = r.cs]
                /\ pos' = r.pos
          IN Got(CsRead(ar.cs, file, pos, n))
  /\ UNCHANGED <<file, written, opts, srcClosed, openRes, pc, calls, last, snap, fs, handles,
                 faults, ctx, trav, tasks, wg, ech, echClosed, hadError, pipe>>

\* rc.Close()
CsClose ==
  /\ pc = "cs_open"
  /\ LET Closed(c) ==
           /\ srcClosed' = c.closes
           /\ last' = Returned("ChecksumClose", c.err, TRUE, c.closes, FALSE, TRUE)
     IN Closed(ChecksumClose(ar.cs, pos))
  /\ pc' = "cs_closed"
  /\ UNCHANGED <<file, written, opts, pos, ar, openRes, calls, snap, fs, handles, faults, ctx,
                 trav, tasks, wg, ech, echClosed, hadError, pipe>>

NextCS ==
  \/ CsOpen
  \/ CsReadSome
  \/ CsClose

SpecCS == InitCS /\ [][NextCS]_vars

(***************************************************************************)
(* The component specifications below exercise one piece of sardata at a   *)
(* time.  They leave the unpacking state alone.                            *)
(***************************************************************************)
unpackVars ==
  <<opts, calls, snap, fs, handles, faults, ctx, trav, tasks, wg, ech, echClosed, hadError, pipe>>

NoUnpack ==
  /\ opts = [verifyState |-> VerifyLate, rawTOC |-> FALSE,
             unpackBufferSize |-> DefaultUnpackBufferSize]
  /\ calls = 0
  /\ snap = [rootOk |-> TRUE]
  /\ fs = RootAbsent
  /\ handles = {}
  /\ faults = 0
  /\ ctx = [cancelled |-> FALSE, at |-> 0]
  /\ trav = TravOff
  /\ tasks = <<>>
  /\ wg = 0
  /\ ech = <<>>
  /\ echClosed = FALSE
  /\ hadError = FALSE
  /\ pipe = NoPipe

(***************************************************************************)
(* ParseTrailer and ChecksumReader over a source positioned anywhere in    *)
(* its payload, whose trailer is the one a ChecksumWriter wrote or one put *)
(* together by hand (TestChecksum, "bad trailer"): a scheme byte c, n      *)
(* digest bytes, the length byte n.                                        *)
(***************************************************************************)
\* The trailers written by hand: an unknown scheme byte, or a length byte
\* that is not the scheme's digest size.
BadTrailers ==
  { [c |-> 0, n |-> 0], [c |-> 7, n |-> 32], [c |-> ChecksumSHA2_256, n |-> 0],
    [c |-> ChecksumSHA2_256, n |-> 64], [c |-> ChecksumSHA3_512, n |-> 32],
    [c |-> ChecksumNULL, n |-> 1], [c |-> ChecksumNULL, n |-> 32] }

GoodTrailers == { [c |-> c, n |-> HashSize(c)] : c \in Schemes }

\* The trailer t of a source whose payload is `payload`.
TrailerBytes(t, payload) ==
  IF t \in GoodTrailers THEN ChecksumTrailer(t.c, payload)
  ELSE <<t.c>> \o [i \in 1..t.n |-> 0] \o <<t.n>>

InitTrailer ==
  /\ \E payload \in Payloads, t \in GoodTrailers \cup BadTrailers :
     \E start \in 0..Len(payload) :
       /\ written = [payload |-> payload, checksum |-> t.c, digestLen |-> t.n,
                     wellFormed |-> t \in GoodTrailers, start |-> start]
       /\ file = payload \o TrailerBytes(t, payload)
       /\ pos = start
  /\ srcClosed = FALSE
  /\ ar = NoArchive
  /\ openRes = [err |-> Nil, stage |-> "none", trailerErr |-> Nil]
  /\ last = [op |-> "none", data |-> <<>>, eof |-> FALSE]
  /\ pc = "cs_start"
  /\ NoUnpack

\* ParseTrailer(r), and on an equal source rc, c, err := ChecksumReader(r);
\* the caller goes on to read only when err is nil.
TrOpen ==
  /\ pc = "cs_start"
  /\ LET Made(r, t) ==
           /\ ar' = [NoArchive EXCEPT !.cs = r.rd]
           /\ pos' = r.pos
           /\ openRes' = [err |-> r.err, stage |-> "ChecksumReader", trailerErr |-> t.err]
           /\ pc' = IF IsNil(r.err) THEN "cs_open" ELSE "cs_failed"
     IN Made(ChecksumReader(file, pos), ParseTrailer(file, pos))
  /\ UNCHANGED <<file, written, srcClosed, last>>
  /\ UNCHANGED unpackVars

\* rc.Read into a buffer of n bytes; a Read that gets nothing reports io.EOF.
TrRead ==
  /\ pc = "cs_open"
  /\ ~last.eof
  /\ \E n \in 1..2 :
       LET Got(r) ==
             /\ ar' = [ar EXCEPT !.cs = r.cs]
             /\ pos' = r.pos
             /\ last' = [op |-> "Read", data |-> last.data \o r.data, eof |-> r.data = <<>>]
       IN Got(CsRead(ar.cs, file, pos, n))
  /\ UNCHANGED <<file, written, srcClosed, openRes, pc>>
  /\ UNCHANGED unpackVars

NextTrailer ==
  \/ TrOpen
  \/ TrRead

SpecTrailer == InitTrailer /\ [][NextTrailer]_vars


(***************************************************************************)
(* A stand-alone ChecksumWriter (sardata/toc.go, TestChecksum "writer"): a *)
(* caller that writes chunks through the writer and then closes it.  file  *)
(* is the sink, srcClosed whether the sink was closed, written.data what   *)
(* the caller wrote, ar.cs.h the running hash.                             *)
(***************************************************************************)
AllSchemes == { c \in 0..255 : ChecksumValid(c) }

Chunks == UNION { [1..n -> {104, 105}] : n \in 1..2 }

\* A close hook that leaves out the length byte.
WriterTrailerNoLen(c, h) == <<c>> \o HashSum(c, h)

\* The bytes the close hook of ChecksumScheme.Writer writes, h being the
\* state of the hash the writes were tee'd into.
WriterTrailer(c, h) ==
  IF c = ChecksumNULL THEN <<c, 0>>
  ELSE <<c>> \o HashSum(c, h) \o <<HashSize(c)>>

InitCW ==
  /\ \E c \in AllSchemes :
       /\ written = [checksum |-> c, data |-> <<>>]
       /\ ar = [NoArchive EXCEPT !.cs = [NoChecksum EXCEPT !.on = TRUE, !.c = c, !.h = HashNew(c)]]
  /\ file = <<>>
  /\ pos = 0
  /\ srcClosed = FALSE
  /\ openRes = [err |-> Nil, stage |-> "none"]
  /\ last = Returned("none", Nil, FALSE, FALSE, FALSE, TRUE)
  /\ pc = "cw_open"
  /\ NoUnpack

\* wc.Write(w): io.MultiWriter(w, h), the sink first and then the hash (the
\* NULL writer writes to the sink alone).
CwWrite ==
  /\ pc = "cw_open"
  /\ \E w \in Chunks :
       /\ Len(written.data) + Len(w) <= MaxPayload
       /\ file' = file \o w
       /\ ar' = [ar EXCEPT !.cs.h = HashWrite(ar.cs.c, @, w)]
       /\ written' = [written EXCEPT !.data = @ \o w]
  /\ UNCHANGED <<pos, srcClosed, openRes, last, pc>>
  /\ UNCHANGED unpackVars

\* wc.Close(), first half: w.Write(buf) of the trailer; when the sink refuses
\* it, Close returns that error and leaves the sink open.
CwCloseWrite ==
  /\ pc = "cw_open"
  /\ \E ok \in BOOLEAN :
       IF ok
         THEN /\ file' = file \o WriterTrailer(ar.cs.c, ar.cs.h)
              /\ pc' = "cw_trailer"
              /\ UNCHANGED last
         ELSE /\ pc' = "cw_failed"
              /\ last' = Returned("WriterClose", Err("WriteError"), TRUE, FALSE, FALSE, TRUE)
              /\ UNCHANGED file
  /\ UNCHANGED <<written, pos, srcClosed, ar, openRes>>
  /\ UNCHANGED unpackVars

\* wc.Close(), second half: return w.Close()
CwCloseSink ==
  /\ pc = "cw_trailer"
  /\ srcClosed' = TRUE
  /\ last' = Returned("WriterClose", Nil, TRUE, TRUE, FALSE, TRUE)
  /\ pc' = "cw_closed"
  /\ UNCHANGED <<file, written, pos, ar, openRes>>
  /\ UNCHANGED unpackVars

NextCW ==
  \/ CwWrite
  \/ CwCloseWrite
  \/ CwCloseSink

SpecCW == InitCW /\ [][NextCW]_vars


(***************************************************************************)
(* A stand-alone block (sardata/block.go, TestBlock): a caller writes      *)
(* chunks to a BlockWriter and closes it, something else is written to the *)
(* sink after the block, and a BlockReader reads the sink from its start.  *)
(* written.data is what the caller wrote, written.next what follows the    *)
(* block in the sink, last.data what the reader has handed out.            *)
(***************************************************************************)
\* What may follow a block: nothing, a NULL trailer, another block.
Followers == { <<>>, <<ChecksumNULL, 0>>, <<1, CompressionNone, 77>> }

InitBlock ==
  /\ \E c \in {CompressionNone, CompressionFlate} :
       written = [compression |-> c, data |-> <<>>, next |-> <<>>]
  /\ file = <<>>
  /\ pos = 0
  /\ srcClosed = FALSE
  /\ ar = NoArchive
  /\ openRes = [err |-> Nil, stage |-> "none", n |-> 0, limit |-> 0]
  /\ last = [op |-> "none", data |-> <<>>, eof |-> FALSE, err |-> Nil]
  /\ pc = "bw_open"
  /\ NoUnpack

\* bw.Write(w): the data goes through the compressor into the buffer, the
\* sink gets nothing yet.
BwWrite ==
  /\ pc = "bw_open"
  /\ \E w \in Chunks :
       /\ Len(written.data) + Len(w) <= MaxPayload
       /\ written' = [written EXCEPT !.data = @ \o w]
  /\ UNCHANGED <<file, pos, srcClosed, ar, openRes, last, pc>>
  /\ UNCHANGED unpackVars

\* bw.Close(): the header and the buffer go to the sink.
BwClose ==
  /\ pc = "bw_open"
  /\ file' = file \o BlockWriter(written.compression, written.data)
  /\ pc' = "bw_closed"
  /\ UNCHANGED <<written, pos, srcClosed, ar, openRes, last>>
  /\ UNCHANGED unpackVars

\* Whatever is written to the sink after the block.
BwFollow ==
  /\ pc = "bw_closed"
  /\ \E f \in Followers :
       /\ file' = file \o f
       /\ written' = [written EXCEPT !.next = f]
  /\ pc' = "br_start"
  /\ UNCHANGED <<pos, srcClosed, ar, openRes, last>>
  /\ UNCHANGED unpackVars

\* br, err := BlockReader(r)
BrOpen ==
  /\ pc = "br_start"
  /\ LET Made(b) ==
           /\ ar' = IF IsNil(b.err) THEN [NoArchive EXCEPT !.dr = NewDataReader(b.c, b.limit)]
                    ELSE NoArchive
           /\ pos' = pos + b.n
           /\ openRes' = [err |-> b.err, stage |-> "BlockReader", n |-> b.n, limit |-> b.limit]
           /\ pc' = IF IsNil(b.err) THEN "br_open" ELSE "br_failed"
     IN Made(BlockReader(file, pos))
  /\ UNCHANGED <<file, written, srcClosed, last>>
  /\ UNCHANGED unpackVars

\* io.ReadFull(br, buf) with a buffer of n bytes
BrRead ==
  /\ pc = "br_open"
  /\ ~last.eof
  /\ \E n \in 1..2 :
       LET Got(r) ==
             /\ ar' = [ar EXCEPT !.dr = r.dr]
             /\ pos' = r.pos
             /\ last' = [op |-> "Read", data |-> last.data \o r.data, eof |-> ~IsNil(r.err),
                         err |-> r.err]
       IN Got(DataRead(ar.dr, NoChecksum, file, pos, n))
  /\ UNCHANGED <<file, written, srcClosed, openRes, pc>>
  /\ UNCHANGED unpackVars

NextBlock ==
  \/ BwWrite
  \/ BwClose
  \/ BwFollow
  \/ BrOpen
  \/ BrRead

SpecBlock == InitBlock /\ [][NextBlock]_vars


(***************************************************************************)
(* TOC.LoopItems step by step (sardata/toc, TestTOCLoop): trav holds the   *)
(* two stacks, the node and index of the for loop and the shared path      *)
(* slice; last.calls the calls of cb made so far.  cb returns an error on  *)
(* its written.failAt-th call (never when 0).                              *)
(***************************************************************************)
LoopTOCs ==
  TOCs \cup
  { TOC(TRUE, <<File(NameA, 0), SymLink(NameS, <<NameA>>),
                Tree(NameD, <<File(NameB, 0), Tree(NameC, <<>>), SymLink(NameS, <<DotDot, NameS>>)>>),
                File(NameZ, 0)>>),
    TOC(FALSE, <<Tree(NameD, <<Tree(NameC, <<Tree(NameB, <<File(NameA, 0)>>)>>)>>), Tree(NameZ, <<>>)>>) }

\* A path that grows by the name without being cut back to the depth.
LoopPathAppendOnly(path, depth, name) == Append(path, name)

\* path = append(path[:len(nodes)], e.Name)
LoopPath(path, depth, name) == Append(Take(path, depth), name)

\* A loop that does not look at what cb returned.
LoopAfterCbIgnoringErr(err, e) == IF e.kind = "Tree" THEN "push" ELSE "next"

\* What the for loop does once cb returned err for entry e: return the
\* error, push the tree and break, or go on to the next entry.
LoopAfterCb(err, e) ==
  IF ~IsNil(err) THEN "return"
  ELSE IF e.kind = "Tree" THEN "push"
  ELSE "next"

InitLoop ==
  /\ \E t \in LoopTOCs :
     \E failAt \in 0..Len(LoopItems(t).items) :
       /\ written = [TOC |-> t, failAt |-> failAt]
       /\ trav = [pc |-> "outer", nodes |-> <<t.root>>, indexes |-> <<0>>, curNode |-> <<>>,
                  i |-> 0, path |-> <<>>]
  /\ last = [op |-> "LoopItems", calls |-> <<>>, err |-> Nil, returned |-> FALSE]
  /\ pc = "loop"
  /\ file = <<>>
  /\ pos = 0
  /\ srcClosed = FALSE
  /\ ar = NoArchive
  /\ openRes = [err |-> Nil, stage |-> "none"]
  /\ opts = [verifyState |-> VerifyLate, rawTOC |-> FALSE,
             unpackBufferSize |-> DefaultUnpackBufferSize]
  /\ calls = 0
  /\ snap = [rootOk |-> TRUE]
  /\ fs = RootAbsent
  /\ handles = {}
  /\ faults = 0
  /\ ctx = [cancelled |-> FALSE, at |-> 0]
  /\ tasks = <<>>
  /\ wg = 0
  /\ ech = <<>>
  /\ echClosed = FALSE
  /\ hadError = FALSE
  /\ pipe = NoPipe

loopFrame ==
  <<file, written, opts, pos, srcClosed, ar, openRes, calls, snap, fs, handles, faults, ctx,
    tasks, wg, ech, echClosed, hadError, pipe>>

\* for len(nodes) > 0 { curNode, curIdx := pop()
LoopPop ==
  /\ pc = "loop" /\ trav.pc = "outer"
  /\ Len(trav.nodes) > 0
  /\ trav' = [trav EXCEPT !.pc = "inner", !.curNode = Last(trav.nodes), !.i = Last(trav.indexes),
                          !.nodes = Take(@, Len(@) - 1), !.indexes = Take(@, Len(@) - 1)]
  /\ UNCHANGED <<last, pc>>
  /\ UNCHANGED loopFrame

\* the for loop over curNode.Entries has run out
LoopLeave ==
  /\ pc = "loop" /\ trav.pc = "inner"
  /\ trav.i >= Len(trav.curNode)
  /\ trav' = [trav EXCEPT !.pc = "outer"]
  /\ UNCHANGED <<last, pc>>
  /\ UNCHANGED loopFrame

\* one turn of the for loop: the path, the call of cb, and what follows it
LoopCall ==
  /\ pc = "loop" /\ trav.pc = "inner"
  /\ trav.i < Len(trav.curNode)
  /\ LET e == trav.curNode[trav.i + 1]
         path == LoopPath(trav.path, Len(trav.nodes), e.name)
         err == IF Len(last.calls) + 1 = written.failAt THEN Err("CbError") ELSE Nil
         Then(what) ==
           /\ last' = [last EXCEPT !.calls = Append(@, [path |-> path, ent |-> e]),
                                   !.err = IF what = "return" THEN err ELSE @,
                                   !.returned = what = "return"]
           /\ pc' = IF what = "return" THEN "loop_done" ELSE pc
           /\ trav' =
                IF what = "push"
                  THEN [trav EXCEPT !.pc = "outer", !.path = path,
                                    !.nodes = @ \o <<trav.curNode, e.entries>>,
                                    !.indexes = @ \o <<trav.i + 1, 0>>]
                ELSE IF what = "next" THEN [trav EXCEPT !.path = path, !.i = @ + 1]
                ELSE [trav EXCEPT !.pc = "done", !.path = path]
     IN Then(LoopAfterCb(err, e))
  /\ UNCHANGED loopFrame

\* return nil
LoopReturn ==
  /\ pc = "loop" /\ trav.pc = "outer"
  /\ Len(trav.nodes) = 0
  /\ last' = [last EXCEPT !.err = Nil, !.returned = TRUE]
  /\ trav' = [trav EXCEPT !.pc = "done"]
  /\ pc' = "loop_done"
  /\ UNCHANGED loopFrame

NextLoop ==
  \/ LoopPop
  \/ LoopLeave
  \/ LoopCall
  \/ LoopReturn

SpecLoop == InitLoop /\ [][NextLoop]_vars


(***************************************************************************)
(* TOC.Validate on its own (sardata/toc, TestTOCNormalize): TOCs holding   *)
(* two sibling files, or one symlink, at some depth below the root.        *)
(* written.depth is the depth of those entries (0 for entries of the       *)
(* root).                                                                  *)
(***************************************************************************)
\* Names to validate: plain ones, the same letter in both cases, the empty
\* name, "." and "..", and "a" followed by a punctuation or control byte.
ValidateNames ==
  { <<97>>, <<65>>, <<98>>, <<>>, Dot, DotDot }
    \cup { <<97, ch>> : ch \in {60, 62, 58, 34, 47, 92, 124, 63, 42, 0, 31, 32, 127} }

\* Symlink targets: none, plain, climbing at the front, climbing after a
\* name, and with a piece that is no path component.
ValidateTargets ==
  { <<>>, <<NameA>>, <<DotDot>>, <<DotDot, NameA>>, <<DotDot, DotDot, NameA>>,
    <<DotDot, DotDot, DotDot, NameA>>, <<NameA, DotDot>>, <<NameA, DotDot, DotDot>>,
    <<DotDot, NameA, DotDot>>, <<Dot>>, <<NameA, <<>>>>, <<NameA, <<97, 124>>>> }

\* The entries, put `depth` directories below the root.
RECURSIVE Nest(_, _)
Nest(entries, depth) ==
  IF depth = 0 THEN entries ELSE <<Tree(NameD, Nest(entries, depth - 1))>>

InitValidate ==
  /\ \E depth \in 0..MaxDepth :
       \/ \E n1 \in ValidateNames, n2 \in ValidateNames, caseSafe \in BOOLEAN :
            written = [TOC |-> TOC(caseSafe, Nest(<<File(n1, 0), File(n2, 0)>>, depth)),
                       kind |-> "names", depth |-> depth, names |-> <<n1, n2>>, target |-> <<>>]
       \/ \E target \in ValidateTargets :
            written = [TOC |-> TOC(FALSE, Nest(<<SymLink(NameS, target)>>, depth)),
                       kind |-> "symlink", depth |-> depth, names |-> <<NameS>>,
                       target |-> target]
  /\ last = [op |-> "none", err |-> Nil]
  /\ pc = "validate"
  /\ file = <<>>
  /\ pos = 0
  /\ srcClosed = FALSE
  /\ ar = NoArchive
  /\ openRes = [err |-> Nil, stage |-> "none"]
  /\ NoUnpack

\* err := t.Validate()
DoValidate ==
  /\ pc = "validate"
  /\ last' = [op |-> "Validate", err |-> Validate(written.TOC)]
  /\ pc' = "validated"
  /\ UNCHANGED <<file, written, pos, srcClosed, ar, openRes>>
  /\ UNCHANGED unpackVars

NextValidate == DoValidate

SpecValidate == InitValidate /\ [][NextValidate]_vars


(***************************************************************************)
(* Open over archives whose TOC block need not hold a valid TOC: the block *)
(* is the encoding of a valid TOC, of a TOC that breaks a rule of the      *)
(* format, or an encoding cut short; the data block follows it.            *)
(***************************************************************************)
\* TOCs that break a rule: a bad character, a duplicate, a duplicate up to
\* case under case_safe, a symlink climbing out of the root, "..", an entry
\* of no kind, a backslash.
BadTOCs ==
  { TOC(FALSE, <<File(<<97, 58>>, 0)>>),
    TOC(FALSE, <<File(NameA, 1), File(NameA, 0)>>),
    TOC(TRUE, <<File(<<97>>, 0), File(<<65>>, 1)>>),
    TOC(FALSE, <<SymLink(NameS, <<DotDot, NameA>>)>>),
    TOC(FALSE, <<Tree(NameD, <<File(DotDot, 0)>>)>>),
    TOC(FALSE, <<NoKind(NameA)>>),
    TOC(FALSE, <<File(<<97, 92>>, 1)>>) }

InitOpen ==
  /\ \E t \in TOCs \cup BadTOCs, compression \in {CompressionNone, CompressionFlate},
        checksum \in {ChecksumSHA2_256, ChecksumNULL}, cut \in BOOLEAN :
       LET m == Marshal(t)
           tocBlock == BlockWriter(compression, IF cut THEN Take(m, Len(m) - 1) ELSE m)
       IN /\ written = [TOC |-> t, compression |-> compression, checksum |-> checksum,
                        flipped |-> FALSE, tocOk |-> t \in TOCs /\ ~cut,
                        tocEnd |-> Len(WriteMagic) + Len(tocBlock)]
          /\ file = ChecksumWriter(checksum,
                                   WriteMagic \o tocBlock \o BlockWriter(compression, DataOf(t)))
  /\ fs = RootAbsent
  /\ pc = "start"
  /\ AtRest

NextOpen == Open

SpecOpen == InitOpen /\ [][NextOpen]_vars


(***************************************************************************)
(* Open over archives that differ from a written one in their version byte *)
(* alone: the writer put written.version after "SAR", and the trailer      *)
(* covers it.                                                              *)
(***************************************************************************)
\* The version bytes archived: the older one, the current one, newer ones.
Versions == {0, Version, 2, 3, 255}

InitVersion ==
  /\ \E t \in TOCs, compression \in {CompressionNone, CompressionFlate},
        checksum \in {ChecksumSHA2_256, ChecksumNULL}, v \in Versions :
       /\ written = [TOC |-> t, compression |-> compression, checksum |-> checksum,
                     flipped |-> FALSE, version |-> v]
       /\ file = ChecksumWriter(checksum,
                                Magic \o <<v>> \o WriteTOC(t, compression)
                                  \o BlockWriter(compression, DataOf(t)))
  /\ fs = RootAbsent
  /\ pc = "start"
  /\ AtRest

NextVersion == Open

SpecVersion == InitVersion /\ [][NextVersion]_vars


(***************************************************************************)
(* The magic envelope on its own (sardata/magic_test.go, TestMagic): a     *)
(* reader holding up to four bytes handed to ReadMagic, and a buffer       *)
(* handed to WriteMagic.  written.out is that buffer, last what ReadMagic  *)
(* returned.                                                               *)
(***************************************************************************)
\* The bytes of the inputs: S A R, P, and version bytes old, current and new.
MagicBytes == {83, 65, 82, 80, 0, Version, 2, 255}

MagicInputs == UNION { [1..n -> MagicBytes] : n \in 0..Len(magicVer) }

InitMagic ==
  /\ file \in MagicInputs
  /\ written = [out |-> <<>>]
  /\ pos = 0
  /\ srcClosed = FALSE
  /\ ar = NoArchive
  /\ openRes = [err |-> Nil, stage |-> "none"]
  /\ last = [op |-> "none", err |-> Nil, version |-> 0]
  /\ pc = "mg_start"
  /\ NoUnpack

\* v, err := ReadMagic(buf)
MgRead ==
  /\ pc = "mg_start"
  /\ LET Got(m) ==
           /\ last' = [op |-> "ReadMagic", err |-> m.err, version |-> m.version]
           /\ pos' = pos + m.n
     IN Got(ReadMagic(Drop(file, pos)))
  /\ pc' = "mg_read"
  /\ UNCHANGED <<file, written, srcClosed, ar, openRes>>
  /\ UNCHANGED unpackVars

\* WriteMagic(buf)
MgWrite ==
  /\ written.out = <<>>
  /\ written' = [written EXCEPT !.out = @ \o WriteMagic]
  /\ UNCHANGED <<file, pos, srcClosed, ar, openRes, last, pc>>
  /\ UNCHANGED unpackVars

NextMagic ==
  \/ MgRead
  \/ MgWrite

SpecMagic == InitMagic /\ [][NextMagic]_vars


(***************************************************************************)
(* Open with and without WithRawTOC, followed by RawTOC (open_test.go,     *)
(* "CacheRawTOC"), over the archives of InitOpen.  last is what RawTOC     *)
(* returned.                                                               *)
(***************************************************************************)
\* Open(r, WithVerification(verifyState), WithRawTOC(true or false), ...)
OpenRawTOC == OpenWith({VerifyLate, VerifyEarly, VerifyNever}, BOOLEAN)

\* data, err := ar.RawTOC()
GetRawTOC ==
  /\ pc = "idle"
  /\ LET Got(r) == last' = [op |-> "RawTOC", data |-> r.data, err |-> r.err]
     IN Got(RawTOC(ar))
  /\ pc' = "raw_got"
  /\ UNCHANGED <<file, written, opts, pos, srcClosed, ar, openRes, calls, snap, fs, handles,
                 faults, ctx, trav, tasks, wg, ech, echClosed, hadError, pipe>>

NextRawTOC ==
  \/ OpenRawTOC
  \/ GetRawTOC

SpecRawTOC == InitOpen /\ [][NextRawTOC]_vars


(***************************************************************************)
(* Open with VerifyNever, then Close and UnpackTo, over archives whose     *)
(* trailer was changed after writing (open_test.go, "VerifyNever": a byte  *)
(* of the digest zeroed, the length byte set to 100).  written.clean is    *)
(* the archive as it was written, written.payloadEnd where its trailer     *)
(* begins.                                                                 *)
(***************************************************************************)
\* The archive with its trailer changed: "digest" changes the byte ten
\* before the end, "len" sets the last byte to 100, "both" does both.
BreakTrailer(bytes, how) ==
  [i \in 1..Len(bytes) |->
     IF i = Len(bytes) - 9 /\ how \in {"digest", "both"} THEN (bytes[i] + 1) % 256
     ELSE IF i = Len(bytes) /\ how \in {"len", "both"} THEN 100
     ELSE bytes[i]]

InitNever ==
  /\ \E t \in TOCs, compression \in {CompressionNone, CompressionFlate},
        checksum \in {ChecksumSHA2_256, ChecksumNULL} :
     \E how \in {"intact", "len"} \cup {h \in {"digest", "both"} : checksum # ChecksumNULL} :
       LET a == WriteArchive(t, DataOf(t), compression, checksum) IN
       /\ written = [TOC |-> t, compression |-> compression, checksum |-> checksum,
                     flipped |-> FALSE, trailer |-> how, clean |-> a,
                     payloadEnd |-> Len(a) - Len(ChecksumTrailer(checksum, <<>>))]
       /\ file = BreakTrailer(a, how)
  /\ fs \in {RootAbsent, RootNonEmpty}
  /\ pc = "start"
  /\ AtRest

\* Open(r, WithVerification(VerifyNever), WithUnpackBufferSize(size))
OpenNever == OpenWith({VerifyNever}, {FALSE})

NextNever ==
  \/ OpenNever
  \/ Close
  \/ UnpackTo
  \/ TravEntry
  \/ TravCopy
  \/ ReadAhead
  \/ TravSend
  \/ TravWait
  \/ \E i \in 1..Len(tasks) : TaskRun(i)
  \/ \E i \in 1..Len(tasks) : TaskSend(i)
  \/ Collect
  \/ UnpackReturn

SpecNever == InitNever /\ [][NextNever]_vars


(***************************************************************************)
(* Every scheme byte: a caller asks the scheme for a writer and for a      *)
(* reader, and a BlockReader is put on a block whose header carries the    *)
(* byte.  snap holds what Writer and Reader returned, openRes and last     *)
(* what the BlockReader returned and handed out.                           *)
(***************************************************************************)
\* Block bodies: empty, one raw byte, one deflated byte.
Bodies == { <<>>, <<104>>, FlateEncode(<<104>>) }

InitScheme ==
  /\ \E c \in 0..255, body \in Bodies :
       /\ written = [compression |-> c, data |-> body, next |-> <<>>]
       /\ file = BlockHeaderWrite(Len(body), c) \o body
  /\ pos = 0
  /\ srcClosed = FALSE
  /\ ar = NoArchive
  /\ openRes = [err |-> Nil, stage |-> "none", n |-> 0, limit |-> 0]
  /\ last = [op |-> "none", data |-> <<>>, eof |-> FALSE, err |-> Nil]
  /\ pc = "br_start"
  /\ opts = [verifyState |-> VerifyLate, rawTOC |-> FALSE,
             unpackBufferSize |-> DefaultUnpackBufferSize]
  /\ calls = 0
  /\ snap = [writer |-> "unasked", writerErr |-> Nil, reader |-> "unasked", readerErr |-> Nil]
  /\ fs = RootAbsent
  /\ handles = {}
  /\ faults = 0
  /\ ctx = [cancelled |-> FALSE, at |-> 0]
  /\ trav = TravOff
  /\ tasks = <<>>
  /\ wg = 0
  /\ ech = <<>>
  /\ echClosed = FALSE
  /\ hadError = FALSE
  /\ pipe = NoPipe

schemeFrame ==
  <<file, written, opts, pos, srcClosed, ar, openRes, pc, calls, last, fs, handles, faults, ctx,
    trav, tasks, wg, ech, echClosed, hadError, pipe>>

\* w, err := c.Writer(sink, level)
SchWriter ==
  /\ snap.writer = "unasked"
  /\ LET Got(w) == snap' = [snap EXCEPT !.writer = IF w.made THEN "made" ELSE "nil",
                                        !.writerErr = w.err]
     IN Got(SchemeWriter(written.compression))
  /\ UNCHANGED schemeFrame

\* r, err := c.Reader(source)
SchReader ==
  /\ snap.reader = "unasked"
  /\ LET Got(r) == snap' = [snap EXCEPT !.reader = IF r.made THEN "made" ELSE "nil",
                                        !.readerErr = r.err]
     IN Got(SchemeReader(written.compression))
  /\ UNCHANGED schemeFrame

NextScheme ==
  \/ SchWriter
  \/ SchReader
  \/ BrOpen
  \/ BrRead

SpecScheme == InitScheme /\ [][NextScheme]_vars


(***************************************************************************)
(* CreateFromPath (package sar): the caller hands it a sink and the path   *)
(* of a tree.  written.TOC is the tree found at the path, written.producer *)
(* how many bytes the files at the path give compared with their size in   *)
(* the tree; file is the sink, handles the files the call left open.       *)
(***************************************************************************)
InitCreate ==
  /\ \E t \in TOCs, compression \in {CompressionNone, CompressionFlate}, checksum \in AllSchemes,
        producer \in {"exact", "short", "long"} :
       written = [TOC |-> t, compression |-> compression, checksum |-> checksum,
                  flipped |-> FALSE, producer |-> producer]
  /\ file = <<>>
  /\ fs = RootAbsent
  /\ pc = "create_start"
  /\ AtRest

\* CreateFromPath(out, path, WithCompression(compression, 9), WithChecksum(checksum)):
\* filepath.Abs, the options, WriteMagic(out), os.Open(path), return nil.
\* fault is the call that fails, if one does.
CreateFromPath ==
  /\ pc = "create_start"
  /\ \E fault \in {"none", "abs", "write", "open"} :
       /\ file' = IF fault \in {"abs", "write"} THEN file ELSE file \o WriteMagic
       /\ handles' = IF fault = "none" THEN handles \cup {<<>>} ELSE handles
       /\ last' = Returned("CreateFromPath",
                           CASE fault = "abs" -> Err("AbsError")
                             [] fault = "write" -> Err("WriteError")
                             [] fault = "open" -> Err("OpenError")
                             [] OTHER -> Nil,
                           TRUE, fault \notin {"abs", "write"}, FALSE, TRUE)
       /\ faults' = IF fault = "none" THEN faults ELSE faults + 1
  /\ pc' = "created"
  /\ UNCHANGED <<written, opts, pos, srcClosed, ar, openRes, calls, snap, fs, ctx, trav, tasks,
                 wg, ech, echClosed, hadError, pipe>>

NextCreate == CreateFromPath

SpecCreate == InitCreate /\ [][NextCreate]_vars


(***************************************************************************)
(* Open and UnpackTo over archives whose data block holds fewer bytes than *)
(* the sizes of the TOC's files add up to: the writer stopped after the    *)
(* first written.supplied bytes of the data stream.  The trailer covers    *)
(* what was written.                                                       *)
(***************************************************************************)
InitShort ==
  /\ \E t \in {x \in TOCs : Len(DataOf(x)) > 0},
        compression \in {CompressionNone, CompressionFlate},
        checksum \in {ChecksumSHA2_256, ChecksumNULL} :
     \E supplied \in 0..(Len(DataOf(t)) - 1) :
       /\ written = [TOC |-> t, compression |-> compression, checksum |-> checksum,
                     flipped |-> FALSE, supplied |-> supplied]
       /\ file = WriteArchive(t, Take(DataOf(t), supplied), compression, checksum)
  /\ fs = RootAbsent
  /\ pc = "start"
  /\ AtRest

NextShort ==
  \/ Open
  \/ UnpackTo
  \/ TravEntry
  \/ TravCopy
  \/ ReadAhead
  \/ TravSend
  \/ TravWait
  \/ \E i \in 1..Len(tasks) : TaskRun(i)
  \/ \E i \in 1..Len(tasks) : TaskSend(i)
  \/ Collect
  \/ UnpackReturn

SpecShort == InitShort /\ [][NextShort]_vars


(***************************************************************************)
(* Open and one UnpackTo with their goroutines, over archives as written   *)
(* and over archives whose data block goes on after the last file's bytes  *)
(* (written.extra), into an absent target.  SpecUnpack lets any goroutine  *)
(* stop anywhere; FairUnpack is SpecUnpack under the Go scheduler, which   *)
(* runs every goroutine that is able to run, the filesystem calls          *)
(* returning.                                                              *)
(***************************************************************************)
InitUnpack ==
  /\ \E t \in TOCs, compression \in {CompressionNone, CompressionFlate}, extra \in {<<>>, <<33>>} :
       /\ written = [TOC |-> t, compression |-> compression, checksum |-> ChecksumSHA2_256,
                     flipped |-> FALSE, extra |-> extra]
       /\ file = WriteArchive(t, DataOf(t) \o extra, compression, ChecksumSHA2_256)
  /\ fs = RootAbsent
  /\ pc = "start"
  /\ AtRest

NextUnpack ==
  \/ Open
  \/ UnpackTo
  \/ TravEntry
  \/ TravCopy
  \/ ReadAhead
  \/ TravSend
  \/ TravWait
  \/ \E i \in 1..Len(tasks) : TaskRun(i)
  \/ \E i \in 1..Len(tasks) : TaskSend(i)
  \/ Collect
  \/ UnpackReturn

SpecUnpack == InitUnpack /\ [][NextUnpack]_vars

\* Some goroutine is able to take a step: the guards of the actions of
\* NextUnpack (each has a successor whenever its guard holds), that is
\* ENABLED <<NextUnpack>>_vars written out.
Runnable ==
  \/ pc = "start"
  \/ pc = "idle" /\ calls < MaxCalls
  \/ pipe.on /\ pipe.producer = "run" /\ pipe.buf = <<>>
  \/ /\ pc = "unpack"
     /\ \/ trav.pc = "entry"
        \/ trav.pc = "copy" /\ (pipe.buf # <<>> \/ pipe.closed)
        \/ trav.pc = "send" /\ Len(ech) < 1
        \/ trav.pc = "wait" /\ wg = 0
        \/ \E i \in 1..Len(tasks) : tasks[i].pc = "run"
        \/ \E i \in 1..Len(tasks) : tasks[i].pc \in {"send", "sendChmod"} /\ Len(ech) < 1
        \/ ech # <<>>
        \/ ech = <<>> /\ echClosed

\* SpecUnpack under weak fairness of NextUnpack, WF_vars(NextUnpack) with its
\* ENABLED written out: the scheduler runs a goroutine whenever one is able
\* to run (the caller, the traversal, the read-ahead producer, a background
\* task, UnpackTo's loop over ech), and the filesystem calls return, so the
\* system does not stop while a step is possible.
FairUnpack == SpecUnpack /\ ([]<>(~Runnable) \/ []<><<TRUE>>_vars)


(***************************************************************************)
(* ReadTOC on its own, then LoopItems over the TOC it returned, as Close   *)
(* and UnpackTo run it.  file is one TOC block holding the encoding of a   *)
(* TOC (or that encoding cut short); the TOCs include entries of no kind   *)
(* and a TOC without a root tree.  last.fault tells that the call did not  *)
(* return: it ended in a panic or a nil dereference.                       *)
(***************************************************************************)
\* TOCs that decode but name no kind or no root.
FaultTOCs ==
  { [caseSafe |-> FALSE, hasRoot |-> FALSE, root |-> <<>>],
    [caseSafe |-> TRUE, hasRoot |-> FALSE, root |-> <<>>],
    TOC(FALSE, <<File(NameA, 1), Tree(NameD, <<NoKind(NameB)>>)>>),
    TOC(FALSE, <<NoKind(Dot)>>) }

InitReadTOC ==
  /\ \E t \in LoopTOCs \cup BadTOCs \cup FaultTOCs,
        compression \in {CompressionNone, CompressionFlate}, cut \in BOOLEAN :
       LET m == Marshal(t) IN
       /\ written = [TOC |-> t, compression |-> compression, cut |-> cut]
       /\ file = BlockWriter(compression, IF cut THEN Take(m, Len(m) - 1) ELSE m)
  /\ last = [op |-> "none", err |-> Nil, fault |-> FALSE, calls |-> 0]
  /\ pc = "rt_start"
  /\ pos = 0
  /\ srcClosed = FALSE
  /\ ar = NoArchive
  /\ openRes = [err |-> Nil, stage |-> "none"]
  /\ NoUnpack

\* ret, err := ReadTOC(r)
RtRead ==
  /\ pc = "rt_start"
  /\ LET Got(r) ==
           /\ last' = [op |-> "ReadTOC", err |-> IF r.err.kind = "Panic" THEN Nil ELSE r.err,
                       fault |-> r.err.kind = "Panic", calls |-> 0]
           /\ ar' = [ar EXCEPT !.TOC = r.toc]
           /\ pos' = r.n
           /\ pc' = IF IsNil(r.err) THEN "rt_read" ELSE "rt_failed"
     IN Got(ReadTOC(file))
  /\ UNCHANGED <<file, written, srcClosed, openRes>>
  /\ UNCHANGED unpackVars

\* ret.LoopItems(cb), cb returning nil
RtLoop ==
  /\ pc = "rt_read"
  /\ LET Got(l) ==
           last' = [op |-> "LoopItems", err |-> Nil, fault |-> l.panic, calls |-> Len(l.items)]
     IN Got(LoopItems(ar.TOC))
  /\ pc' = "rt_looped"
  /\ UNCHANGED <<file, written, pos, srcClosed, ar, openRes>>
  /\ UNCHANGED unpackVars

NextReadTOC ==
  \/ RtRead
  \/ RtLoop

SpecReadTOC == InitReadTOC /\ [][NextReadTOC]_vars



(***************************************************************************)
(* Open and Close over archives whose TOC names two files with sizes up to *)
(* the largest uint64, in front of a data block of a few bytes.            *)
(***************************************************************************)
\* 1, 2, 2^62, 2^63 and 2^64 - 1
DrainSizes ==
  {U64(1), U64(2), <<0, 0, 64>>, <<0, 0, 128>>, <<Huge - 1, Huge - 1, 255>>}

InitDrain ==
  /\ \E a \in DrainSizes, b \in DrainSizes, len \in 2..3,
        compression \in {CompressionNone, CompressionFlate} :
       LET t == TOC(TRUE, <<File64(NameA, a), File64(NameB, b)>>)
           data == [j \in 1..len |-> 64 + j]
       IN /\ written = [TOC |-> t, compression |-> compression, checksum |-> ChecksumSHA2_256,
                        flipped |-> FALSE, data |-> data]
          /\ file = WriteArchive(t, data, compression, ChecksumSHA2_256)
  /\ fs = RootAbsent
  /\ pc = "start"
  /\ AtRest

NextDrain == Open \/ Close

SpecDrain == InitDrain /\ [][NextDrain]_vars


(***************************************************************************)
(* Properties.                                                             *)
(***************************************************************************)
\* The source is as it was written.
Intact == ~written.flipped

\* UnpackTo ran its traversal to the end and no entry reported an error.
UnpackedCleanly == last.op = "UnpackTo" /\ last.touched /\ ~hadError

\* The payload of item i of the written TOC: the bytes of the data stream at
\* the offset the files before it leave.
PayloadOfItem(items, i) ==
  LET off == SumSeq([j \in 1..(i - 1) |-> IF items[j].ent.kind = "File" THEN items[j].ent.size ELSE 0])
  IN SubSeq(DataOf(written.TOC), off + 1, off + items[i].ent.size)

\* The target holds every directory and every file of the written TOC, each
\* file with its payload.
Unpacked ==
  LET items == LoopItems(written.TOC).items IN
  \A i \in 1..Len(items) :
    CASE items[i].ent.kind = "Tree" -> IsDir(fs, items[i].path)
      [] items[i].ent.kind = "File" ->
           /\ items[i].path \in DOMAIN fs
           /\ fs[items[i].path].kind = "file"
           /\ fs[items[i].path].content = PayloadOfItem(items, i)
      [] OTHER -> TRUE

\* C1: in Late mode, on an archive whose payload does not hash to its
\* trailer's digest (magic and TOC parse), a Close made without unpacking
\* returns the mismatched-checksum error, never nil.
C1_LateCloseReportsMismatch ==
  (last.op = "Close" /\ last.first /\ opts.verifyState = VerifyLate /\ PayloadMismatch(file))
    => last.err.kind = "MismatchedChecksum"

\* C2: in Late mode, an UnpackTo that processed every entry without error
\* ends with the checksum layer's close: on a corrupted archive it returns
\* the checksum error, and it returns nil only if the digest matched.
C2_LateUnpackReportsMismatch ==
  (UnpackedCleanly /\ opts.verifyState = VerifyLate /\ PayloadMismatch(file))
    => last.err.kind = "MismatchedChecksum"

\* C3: Open in Early mode on an archive whose payload does not hash to the
\* trailer's digest returns the mismatched-checksum error from the reader
\* set-up, returns no archive, and reads neither magic nor TOC.
C3_EarlyOpenReportsMismatch ==
  (pc \in {"failed", "idle", "unpack"} /\ opts.verifyState = VerifyEarly /\ PayloadMismatch(file))
    => (pc = "failed" /\ openRes.stage = "setUpReader"
        /\ openRes.err.kind = "MismatchedChecksum")

\* C4: round trip.  For an archive written as magic, TOC block and data block
\* through a ChecksumWriter, Open yields a TOC equal to the one written, and
\* UnpackTo into an absent or empty target, no filesystem call failing,
\* returns nil having created every directory and every file with its payload.
C4_RoundTrip ==
  Intact =>
    /\ pc \in {"failed", "idle", "unpack"} => (pc # "failed" /\ ar.TOC = written.TOC)
    /\ (last.op = "UnpackTo" /\ last.first /\ last.rootOk /\ faults = 0)
         => (IsNil(last.err) /\ Unpacked)

\* C4's case: an UnpackTo of an intact archive with a directory and a
\* non-empty file returned nil.
C4_Witness ==
  /\ Intact
  /\ last.op = "UnpackTo" /\ last.first /\ last.rootOk /\ faults = 0
  /\ IsNil(last.err)
  /\ \E q \in DOMAIN fs : fs[q].kind = "file" /\ Len(q) = 2 /\ fs[q].content # <<>>
  /\ written.compression = CompressionFlate
  /\ opts.unpackBufferSize > 0

\* C5: once a first UnpackTo or Close was made, whether it succeeded or not,
\* the archive is closed for good: a later UnpackTo returns the double-unpack
\* error and a later Close returns nil, and neither touches the target, the
\* data reader or the source.
C5_ClosedForGood ==
  [][ /\ calls' = calls + 1 => ar'.didClose
      /\ (calls' = calls + 1 /\ ar.didClose) =>
           /\ UNCHANGED <<pos, srcClosed, ar, fs, handles, pipe, pc>>
           /\ \/ last'.op = "UnpackTo" /\ last'.err.kind = "DoubleUnpack"
              \/ last'.op = "Close" /\ IsNil(last'.err) ]_vars

\* C5's case: an UnpackTo that failed was followed by an UnpackTo, which
\* returned the double-unpack error.
C5_Witness ==
  /\ calls = 2
  /\ hadError
  /\ last.op = "UnpackTo" /\ ~last.first
  /\ last.err.kind = "DoubleUnpack"

\* C6: UnpackTo on a target that exists and is not an empty directory returns
\* an error before it creates any entry or reads any data byte.
C6_RootMustBeEmpty ==
  /\ pc = "unpack" => snap.rootOk
  /\ (last.op = "UnpackTo" /\ last.first /\ ~last.rootOk) => (~IsNil(last.err) /\ ~last.touched)

\* C7: when the context is cancelled during the traversal, no work is
\* scheduled after the entry in progress, and UnpackTo, having waited for the
\* background tasks, returns the cancellation error.
C7_CancelStopsTraversal ==
  /\ (pc = "unpack" /\ ctx.cancelled) => trav.idx <= ctx.at + 1
  /\ (last.op = "UnpackTo" /\ last.cancelled) => last.err.kind = "Canceled"

\* C8: in every verification mode, once a Close made in the Open state or an
\* UnpackTo has returned nil, the underlying source has been closed.
C8_SourceClosed ==
  (last.op \in {"Close", "UnpackTo"} /\ last.first /\ IsNil(last.err)) => srcClosed

\* C9: when UnpackTo returns, every file handle it opened is closed, also
\* for a file whose stat or copy failed.
C9_HandlesClosed ==
  (pc = "idle" /\ last.op = "UnpackTo") => handles = {}

\* C10: the Close of a ChecksumReader, for every scheme, NULL included: with
\* the source not at the payload's end it returns junk-after-payload with the
\* difference (payload end minus position); else, for a scheme other than
\* NULL, the mismatched-checksum error if and only if the hash of what was
\* read differs from the trailer's digest; else it closes the source and
\* returns nil.
C10_ChecksumClose ==
  pc = "cs_closed" =>
    LET end == ParseTrailer(file, 0).nominalEnd IN
    IF pos # end
      THEN last.err = [kind |-> "JunkAfterPayload", diff |-> end - pos] /\ ~srcClosed
    ELSE IF written.checksum # ChecksumNULL /\ PayloadMismatch(file)
      THEN last.err.kind = "MismatchedChecksum" /\ ~srcClosed
    ELSE IsNil(last.err) /\ srcClosed

\* C10's case: a NULL-scheme reader closed short of the payload's end.
C10_Witness ==
  /\ pc = "cs_closed"
  /\ written.checksum = ChecksumNULL
  /\ last.err.kind = "JunkAfterPayload"
  /\ last.err.diff > 0

\* C11: a ChecksumReader made over a source positioned at an offset p inside
\* a well-formed payload hands out the bytes at [p, payload end) and nothing
\* else: what it has returned so far is the source from p on, it never goes
\* past the payload end, and it reports end-of-stream only at the payload end.
C11_ReaderStopsAtPayloadEnd ==
  (pc = "cs_open" /\ written.wellFormed) =>
    LET end == Len(written.payload)
        got == Len(last.data)
    IN /\ written.start + got <= end
       /\ last.data = SubSeq(file, written.start + 1, written.start + got)
       /\ last.eof => written.start + got = end

\* C13: over a trailer whose scheme byte is unknown, or whose length byte is
\* not the digest size of its scheme (NULL with a non-zero length included),
\* ParseTrailer and ChecksumReader both return the matching error, and the
\* caller gets no reader to use.
C13_BadTrailerRejected ==
  (pc \in {"cs_open", "cs_failed"} /\ ~written.wellFormed) =>
    LET want == IF ChecksumValid(written.checksum) THEN "HashSizeMismatch" ELSE "UnknownChecksum"
    IN /\ openRes.trailerErr.kind = want
       /\ openRes.err.kind = want
       /\ pc = "cs_failed"

\* C12: once Close of a ChecksumWriter has written its trailer, the sink holds
\* what was written followed by the scheme byte, the digest of exactly what
\* was written and the digest's length (0xFF 0x00 for NULL), which
\* ParseTrailer reads back; the sink is closed by Close, and only after the
\* trailer is in it.
C12_WriterTrailer ==
  LET c == written.checksum
      digest == HashSum(c, HashWrite(c, HashNew(c), written.data))
      t == ParseTrailer(file, 0)
  IN /\ pc \in {"cw_trailer", "cw_closed"} =>
          /\ file = written.data \o <<c>> \o digest \o <<HashSize(c)>>
          /\ c = ChecksumNULL => Drop(file, Len(written.data)) = <<255, 0>>
          /\ IsNil(t.err) /\ t.c = c /\ t.nominalEnd = Len(written.data)
          /\ t.nominalChecksum = digest
     /\ pc = "cw_closed" => srcClosed
     /\ srcClosed => pc = "cw_closed"

C12_Witness ==
  /\ pc = "cw_closed" /\ srcClosed /\ Len(written.data) = MaxPayload
  /\ written.checksum = ChecksumBLAKE2b /\ Len(file) = MaxPayload + 66

\* C14: a closed BlockWriter has put in the sink the varint of the length of
\* the compressed payload, the scheme byte and the compressed payload (the
\* written bytes themselves for CompressionNone), and nothing else; a
\* BlockReader over the sink hands out the written bytes, in order, and ends
\* with io.EOF when it has handed out all of them.
C14_BlockFraming ==
  LET c == written.compression
      z == Compress(c, written.data)
      block == Take(file, Len(file) - Len(written.next))
  IN /\ pc \in {"bw_closed", "br_start", "br_open", "br_failed"} =>
          /\ Len(block) = 2 + Len(z)
          /\ block[1] = Len(z) /\ block[2] = c
          /\ Drop(block, 2) = z
          /\ c = CompressionNone => z = written.data
          /\ Decompress(c, z) = [data |-> written.data, err |-> Err("EOF")]
     /\ pc # "br_failed"
     /\ pc = "br_open" =>
          /\ last.data = Take(written.data, Len(last.data))
          /\ last.eof => (last.data = written.data /\ last.err.kind = "EOF")

C14_Witness ==
  /\ pc = "br_open" /\ last.eof /\ written.compression = CompressionFlate
  /\ Len(last.data) = MaxPayload /\ written.next # <<>>

\* C15: a BlockReader and its decoder take from the source the header and at
\* most the header's declared length: the source's offset never passes the
\* end of the block, whatever follows it.
C15_BlockReaderStaysInBlock ==
  pc \in {"br_open", "br_failed"} =>
    /\ pos <= openRes.n + openRes.limit
    /\ pos <= Len(file) - Len(written.next)

C15_Witness ==
  /\ pc = "br_open" /\ written.next # <<>> /\ written.compression = CompressionFlate
  /\ pos = Len(file) - Len(written.next) /\ last.data = <<>> /\ last.eof

\* The entries below `entries` in depth-first pre-order, each with its path
\* from the root (prefix being the path of the tree that holds them).
RECURSIVE PreOrder(_, _)
PreOrder(entries, prefix) ==
  IF entries = <<>> THEN <<>>
  ELSE LET e == Head(entries)
           p == Append(prefix, e.name)
       IN <<[path |-> p, ent |-> e]>>
          \o (IF e.kind = "Tree" THEN PreOrder(e.entries, p) ELSE <<>>)
          \o PreOrder(Tail(entries), prefix)

\* C16: with a callback that never fails, LoopItems calls it once per entry
\* in depth-first pre-order, each time with the names from the root down to
\* the entry as the path, and returns nil; at every moment the calls made so
\* far are a prefix of that order.
C16_LoopItemsPreOrder ==
  written.failAt = 0 =>
    LET want == PreOrder(written.TOC.root, <<>>) IN
    /\ last.calls = Take(want, Len(last.calls))
    /\ pc = "loop_done" => (last.calls = want /\ IsNil(last.err) /\ want = LoopItems(written.TOC).items)

C16_Witness ==
  /\ pc = "loop_done" /\ written.failAt = 0 /\ Len(last.calls) = 7
  /\ Len(last.calls[6].path) = 2 /\ Len(last.calls[7].path) = 1

\* C17: when the callback returns an error on its k-th call, LoopItems
\* returns that error and has called it for the first k entries of the
\* traversal order and for no other.
C17_LoopItemsStopsOnError ==
  (pc = "loop_done" /\ written.failAt > 0) =>
    /\ last.err = Err("CbError")
    /\ last.calls = Take(PreOrder(written.TOC.root, <<>>), written.failAt)

C17_Witness ==
  /\ pc = "loop_done" /\ written.failAt = 3 /\ Len(last.calls) = 3 /\ last.err.kind = "CbError"
  /\ Len(PreOrder(written.TOC.root, <<>>)) > 3 /\ last.calls[3].ent.kind = "Tree"

\* A name no entry may carry, as the format lists them: empty, ".", "..", or
\* holding one of < > : " / \ | ? * or a byte 0x00..0x1f.
ForbiddenName(n) ==
  \/ n \in {<<>>, Dot, DotDot}
  \/ \E i \in 1..Len(n) : n[i] \in {60, 62, 58, 34, 47, 92, 124, 63, 42} \cup (0..31)

\* C18: TOC.Validate rejects a TOC holding, at any depth, an entry with a
\* forbidden name, two siblings of the same name, or (case_safe) two siblings
\* equal in lowercase; without case_safe, two good names that differ (even if
\* only in case) are accepted.
C18_ValidateNames ==
  (pc = "validated" /\ written.kind = "names") =>
    LET n1 == written.names[1]
        n2 == written.names[2]
        caseSafe == written.TOC.caseSafe
    IN /\ (ForbiddenName(n1) \/ ForbiddenName(n2) \/ n1 = n2
             \/ (caseSafe /\ ToLower(n1) = ToLower(n2)))
            => ~IsNil(last.err)
       /\ (~ForbiddenName(n1) /\ ~ForbiddenName(n2) /\ n1 # n2 /\ ~caseSafe)
            => IsNil(last.err)

\* The target's pieces are path components: the target is not empty and no
\* piece is empty, "." or holds a bad character.
TargetWellFormed(target) ==
  /\ target # <<>>
  /\ \A i \in 1..Len(target) : IsNil(checkPathPiece(target[i], TRUE))

\* The number of ".." pieces the target begins with.
RECURSIVE LeadingDotDots(_)
LeadingDotDots(target) ==
  IF target = <<>> \/ Head(target) # DotDot THEN 0 ELSE 1 + LeadingDotDots(Tail(target))

\* C19 as stated: a symlink at depth d with a well-formed target is accepted
\* if and only if the target begins with at most d ".." pieces.
C19_LeadingDotDots ==
  (pc = "validated" /\ written.kind = "symlink" /\ TargetWellFormed(written.target)) =>
    (IsNil(last.err) <=> LeadingDotDots(written.target) <= written.depth)

\* C19, amended: a symlink at depth d with a well-formed target is accepted
\* if and only if the target holds at most d ".." pieces, wherever they
\* stand.
C19_AllDotDots ==
  (pc = "validated" /\ written.kind = "symlink" /\ TargetWellFormed(written.target)) =>
    (IsNil(last.err) <=>
       Len(SelectSeq(written.target, LAMBDA p : p = DotDot)) <= written.depth)

C19_Witness ==
  /\ pc = "validated" /\ written.kind = "symlink" /\ written.depth = 2
  /\ written.target = <<DotDot, NameA, DotDot>> /\ IsNil(last.err)

\* C20: Open returns an archive only over a TOC block holding a valid TOC;
\* over a TOC block that does not decode or whose TOC breaks a rule, Open
\* returns an error (it does not panic) and no archive, and the source has
\* not been read past the end of the TOC block.
C20_OpenValidatesTOC ==
  pc \in {"idle", "failed"} =>
    /\ pc = "idle" => written.tocOk
    /\ ~written.tocOk =>
         /\ pc = "failed"
         /\ openRes.err.kind \notin {"nil", "Panic"}
         /\ ar = NoArchive
         /\ pos <= written.tocEnd

\* C21: Open accepts an archive that is well-formed but for its version byte
\* exactly when that byte is at most 1: versions 0 and 1 open, every version
\* from 2 on is rejected.
C21_OpenVersionGate ==
  pc \in {"idle", "failed"} => (pc = "idle" <=> written.version <= 1)

C23_ShortMagic ==
  (pc = "mg_read" /\ Len(file) < 4) => last.err.kind = "UnexpectedEOF"

\* C24: after Open with WithRawTOC(true), RawTOC returns the bytes of the TOC
\* block as they stand in the archive, from the first byte after the magic
\* to the last byte before the data block (for a written TOC: the varint of
\* the compressed length, the scheme byte, the compressed TOC); after Open
\* without the option RawTOC returns an error.
C24_RawTOC ==
  pc = "raw_got" =>
    IF opts.rawTOC
      THEN /\ IsNil(last.err)
           /\ last.data = SubSeq(file, Len(Magic) + 2, written.tocEnd)
           /\ written.tocOk =>
                LET z == Compress(written.compression, Marshal(written.TOC)) IN
                last.data = PutUvarint(Len(z)) \o <<written.compression>> \o z
      ELSE ~IsNil(last.err) /\ last.data = <<>>

C24_Witness ==
  /\ pc = "raw_got" /\ opts.rawTOC /\ written.tocOk /\ written.compression = CompressionFlate
  /\ opts.verifyState = VerifyLate /\ Len(last.data) > 10 /\ IsNil(last.err)
  /\ Len(DataOf(written.TOC)) > 0

\* C25: with VerifyNever the trailer plays no part.  Open does not seek to
\* the trailer, and no call reads the source past the payload's end.  Open
\* on the archive returns what it returns on the archive as written (the
\* written TOC), and from every state reached the data reader hands out, and
\* Close returns, what they would over the archive as written, so the two
\* runs go on alike.  In particular Close returns nil, and an UnpackTo into
\* an absent target with no failing call returns nil with every file written.
C25_NeverIgnoresTrailer ==
  /\ ~openRes.trailer
  /\ pos <= written.payloadEnd
  /\ pc # "start" => pc # "failed"
  /\ (pc = "idle" /\ calls = 0) =>
       LET Same(a, b) == a = b /\ a.ar = ar /\ ar.TOC = written.TOC
       IN Same(OpenArchive(file, VerifyNever, FALSE),
               OpenArchive(written.clean, VerifyNever, FALSE))
  /\ pc \in {"idle", "unpack"} =>
       /\ \A n \in (0..MaxFileSize) \cup {ReadAheadSize} :
            DataRead(ar.dr, ar.cs, file, pos, n) = DataRead(ar.dr, ar.cs, written.clean, pos, n)
       /\ CloseArchive(ar, file, pos, VerifyNever)
            = CloseArchive(ar, written.clean, pos, VerifyNever)
  /\ (last.op = "Close" /\ last.first) => IsNil(last.err)
  /\ (last.op = "UnpackTo" /\ last.first /\ last.rootOk /\ faults = 0)
       => (IsNil(last.err) /\ Unpacked)

\* C25's case: an archive with digest and length byte both changed was
\* opened and unpacked, with the read-ahead on.
C25_Witness ==
  /\ written.trailer = "both" /\ written.compression = CompressionFlate
  /\ last.op = "UnpackTo" /\ last.first /\ IsNil(last.err) /\ pc = "idle"
  /\ opts.unpackBufferSize > 0 /\ pos = written.payloadEnd
  /\ \E q \in DOMAIN fs : fs[q].kind = "file" /\ fs[q].content # <<>>

\* C26: for a scheme byte other than None (1) and Flate (2), Writer, Reader
\* and a BlockReader over a header carrying the byte each return the
\* unknown-compression error and no writer or reader, and nothing of the
\* block's body is read or decoded.
C26_UnknownCompression ==
  written.compression \notin {1, 2} =>
    /\ snap.writer # "unasked" =>
         (snap.writer = "nil" /\ snap.writerErr.kind = "UnknownCompression")
    /\ snap.reader # "unasked" =>
         (snap.reader = "nil" /\ snap.readerErr.kind = "UnknownCompression")
    /\ pc # "br_start" =>
         /\ pc = "br_failed"
         /\ openRes.err.kind = "UnknownCompression"
         /\ ar.dr = NoArchive.dr
         /\ last.data = <<>>
         /\ pos = Len(file) - Len(written.data)

C26_Witness ==
  /\ written.compression = 3 /\ written.data # <<>>
  /\ snap.writer = "nil" /\ snap.reader = "nil" /\ pc = "br_failed"

\* C27: when the create operation returns nil, the sink holds the magic, the
\* TOC block, the data block with exactly File.size bytes of every file in
\* depth-first order, and the trailer over all of that, and the sink was
\* closed; with a producer that gives fewer or more bytes than a file's size
\* it does not return nil.
C27_CreateWritesArchive ==
  (pc = "created" /\ IsNil(last.err)) =>
    /\ written.producer = "exact"
    /\ file = WriteArchive(written.TOC, DataOf(written.TOC), written.compression,
                           written.checksum)
    /\ srcClosed

\* C28: during UnpackTo of an archive as written, every file whose copy
\* completed holds the bytes of the data stream at [off, off + size), off
\* being the sum of the sizes of the files before it in traversal order,
\* also when an earlier file failed to be created or stat'ed.
C28_FilesGetTheirBytes ==
  (pc = "unpack" /\ Intact) =>
    \A i \in 1..Len(tasks) :
      (Items[i].ent.kind = "File" /\ tasks[i].pc # "none") =>
        fs[Items[i].path].content = PayloadOfItem(Items, i)

\* C29: over an archive whose data stream ends before the files' sizes are
\* used up, an UnpackTo made in the Open state returns an error: it never
\* returns nil leaving a file shorter than its declared size.
C29_ShortStreamIsAnError ==
  (last.op = "UnpackTo" /\ last.first) => ~IsNil(last.err)

\* The traversal of the running UnpackTo was ended by a directory that could
\* not be made: it is sending that error, or is past the send with entries
\* left unvisited.
FatalMkdir ==
  /\ pc = "unpack"
  /\ \/ trav.pc = "send" /\ trav.pending.kind = "FatalMkdir"
     \/ trav.pc \in {"wait", "done"} /\ trav.idx < Len(Items)

\* C30: once a directory could not be made, the traversal visits nothing
\* more: no entry after the directory is created or scheduled, the traversal
\* takes no further byte from the data source (straight from the data
\* reader, or from the read-ahead pipe), and this stays so until UnpackTo
\* returns; it returns an error, and only when every background task
\* started before the failure is done.
C30_FatalMkdirStopsTraversal ==
  [][ FatalMkdir =>
        /\ \A j \in (trav.idx + 2)..Len(Items) :
             /\ tasks[j].pc = "none"
             /\ snap.rootOk => Items[j].path \notin DOMAIN fs
        /\ trav.pc # "copy"
        /\ ~pipe.on => (pos' = pos /\ ar'.dr = ar.dr)
        /\ Len(pipe'.buf) >= Len(pipe.buf)
        /\ FatalMkdir' \/ pc' = "idle"
        /\ pc' = "idle" =>
             /\ last'.op = "UnpackTo" /\ ~IsNil(last'.err)
             /\ wg = 0
             /\ \A i \in 1..Len(tasks) : tasks[i].pc \in {"none", "done"} ]_vars

\* C30's case: a file was copied and its task started, the next directory
\* could not be made, and the task has finished before ech was closed.
C30_Witness ==
  /\ FatalMkdir /\ echClosed /\ ech = <<>>
  /\ trav.idx = 1 /\ Len(Items) = 3
  /\ tasks[1].pc = "done" /\ tasks[3].pc = "none"
  /\ Items[3].path \notin DOMAIN fs
  /\ hadError

\* An error of the running UnpackTo that has not been logged yet: the
\* traversal or a background task holds it for its next send, or it is in ech.
ErrInFlight ==
  \/ trav.pc = "send" /\ ~IsNil(trav.pending)
  \/ \E i \in 1..Len(tasks) : tasks[i].pc \in {"send", "sendChmod"} /\ ~IsNil(tasks[i].pending)
  \/ \E k \in 1..Len(ech) : ~IsNil(ech[k])

\* Entry j of the running UnpackTo has been processed: its directory made,
\* its symlink task started, its file created (or the creation failed).
Processed(j) ==
  CASE Items[j].ent.kind = "Tree" -> IsDir(fs, Items[j].path)
    [] Items[j].ent.kind = "Symlink" -> tasks[j].pc # "none"
    [] OTHER -> Items[j].path \in DOMAIN fs \/ faults > 0

C32_NoDeadlock ==
  /\ (pc = "unpack") ~> (pc = "idle" /\ last.op = "UnpackTo")
  /\ [][(pc = "unpack" /\ pc' = "idle") =>
          /\ trav.pc = "done"
          /\ \A i \in 1..Len(tasks) : tasks[i].pc \in {"none", "done"}]_vars
  /\ []((pc = "unpack" /\ echClosed) =>
          /\ trav.pc = "done"
          /\ \A i \in 1..Len(tasks) : tasks[i].pc \in {"none", "done"})
  /\ [][echClosed => Len(ech') <= Len(ech)]_vars

\* C32's case: with read-ahead on, one filesystem call failed, two
\* background tasks sent their results, and UnpackTo has returned.
C32_Witness ==
  /\ pc = "idle" /\ last.op = "UnpackTo" /\ last.first
  /\ faults = 1 /\ hadError /\ pipe.on
  /\ echClosed /\ ech = <<>> /\ wg = 0
  /\ Len(LoopItems(ar.TOC).items) = 3

\* C33: with read-ahead on, once no goroutine can take a step any more
\* (UnpackTo has returned, whatever its result), the read-ahead producer has
\* exited and closed the pipe: it is not left inside a write to the pipe
\* that nobody will read.
C33_ProducerExits ==
  (pipe.on /\ ~Runnable) => (pipe.producer = "done" /\ pipe.closed /\ pipe.buf = <<>>)

\* C35: with read-ahead on, once UnpackTo has gone past its loop over ech
\* without an error and closed the data reader, the read-ahead producer
\* issues no Read on the data reader any more: nothing is taken from the
\* reader or from the source, and the pipe is as the producer left it.
C35_NoReadAfterClose ==
  [][ (pipe.on /\ pc = "idle" /\ ~hadError) =>
        (ar'.dr = ar.dr /\ ar'.cs = ar.cs /\ pos' = pos /\ pipe' = pipe) ]_vars

\* Where the resolution of a target stands after its first k pieces, as a
\* number of levels below the archive root, having started in a directory
\* `depth` levels below the root: ".." goes up one level, a name down one.
LevelAfter(target, k, depth) ==
  depth + Len(SelectSeq(Take(target, k), LAMBDA p : p # DotDot))
        - Len(SelectSeq(Take(target, k), LAMBDA p : p = DotDot))

\* C36: in a TOC that Validate accepts, resolving a symlink's target piece
\* by piece from the directory that holds the symlink is at no prefix of the
\* target above the archive root.
C36_SymlinkStaysInside ==
  (pc = "validated" /\ written.kind = "symlink" /\ IsNil(last.err)) =>
    \A k \in 1..Len(written.target) : LevelAfter(written.target, k, written.depth) >= 0

\* C36's case: a symlink three directories down whose target climbs three
\* times, to the root itself, and then names an entry, was accepted.
C36_Witness ==
  /\ pc = "validated" /\ written.kind = "symlink" /\ IsNil(last.err)
  /\ written.depth = 3
  /\ written.target = <<DotDot, DotDot, DotDot, NameA>>
  /\ LevelAfter(written.target, 3, written.depth) = 0

\* C37: over every TOC block that decodes, an entry of no kind and a TOC
\* without a root included, ReadTOC returns (a TOC or an error), and
\* LoopItems over a TOC that ReadTOC returned without error runs to its end:
\* neither ends in a panic or a nil dereference.
C37_NoRuntimeFault ==
  pc \in {"rt_read", "rt_failed", "rt_looped"} => ~last.fault


\* The bytes of the data block that a.r has handed out.
Drained ==
  IF ar.dr.c = CompressionFlate
    THEN IF ar.dr.started THEN Len(written.data) - Len(ar.dr.buf) ELSE 0
    ELSE Len(written.data) - ar.dr.N

\* The sum of the File.size of the TOC that was written, as a number, capped
\* at cap.
SizesUpTo(cap) ==
  LET sizes == written.TOC.root
      Small(x) == x[2] = 0 /\ x[3] = 0
  IN IF \E i \in 1..Len(sizes) : ~Small(sizes[i].size64) THEN cap
     ELSE Min(SumSeq([i \in 1..Len(sizes) |-> sizes[i].size64[1]]), cap)

\* C34: in Late mode the first Close of an open archive has read from the
\* data reader the sum of all File.size bytes, or the whole data block when
\* that is shorter, whatever the sizes are: a sum of 2^63 or more, or one
\* that wraps past 2^64, drains as much as any other.
C34_CloseDrainsTheSum ==
  (pc = "idle" /\ last.op = "Close" /\ last.first /\ opts.verifyState = VerifyLate)
    => Drained = SizesUpTo(Len(written.data))

====
